---- MODULE Spec2Model ----
(***************************************************************************)
(* Test execution pipeline of the tgstation test adapter: artifact         *)
(* writing, compile, daemon run with two-phase watch, result reading,      *)
(* cleanup, and cooperative cancellation through a vscode EventEmitter.    *)
(*                                                                         *)
(* Two orchestrators exist in the source and both are modelled:            *)
(*   variant "adapter"    : DMAdapter.run/cancel + runAllTests + runTest   *)
(*   variant "controller" : runTests (TestController API)                  *)
(*                                                                         *)
(* One action is one event-loop task (an I/O completion, a process or      *)
(* watch event, a user call) together with every promise continuation      *)
(* it triggers.                                                            *)
(*                                                                         *)
(* Further specifications over the same variables: SpecReconcile (result   *)
(* reading and reporting), SpecArtifacts (makeTestDME), SpecProcess (one   *)
(* runProcess call), SpecSignal (the cancel emitter over several runs,     *)
(* including the first DMAdapter, "legacy"), SpecDiscovery (loadTests) and  *)
(* SpecParallel (the bounded parallel() helper of loadTests).              *)
(***************************************************************************)
EXTENDS Integers, Sequences, FiniteSets, TLC

\* Bounds of the model
MaxWrites == 1      \* marker-less writes the daemon makes to game.log
MaxFaults == 1      \* injected watch-stream / file-read failures per run
MaxOtherLogs == 1   \* writes the daemon makes to other files of the log directory

Variants == {"adapter", "controller"}
ResultTypes == {"log", "json"}
Ephemeral == {"dmb", "dme", "dynrsc", "rsc", "focus"}

VARIABLES
    variant,        \* which orchestrator drives the run
    resultsType,    \* config.getResultsType()
    pc,             \* the await the pipeline is suspended at
    result,         \* how the run ended, as seen by the caller
    pendingErr,     \* controller: error thrown once the failure-path cleanupTest resolved
    isRunning,      \* DMAdapter.isRunning
    isCanceling,    \* DMAdapter.isCanceling
    listeners,      \* listeners attached to the run's cancelEmitter
    prebuildProc,   \* OS process of the pre-compile command
    compilerProc,   \* OS process of the compiler
    ddStarted,      \* a DreamDaemonProcess object was constructed (exec done)
    ddIsRunning,    \* DreamDaemonProcess.isRunning
    ddIsDisposed,   \* DreamDaemonProcess.isDisposed
    watcher,        \* fs.watch handle of watchUntil: none, dir, file, closed
    watchListener,  \* watchUntil's handle on the daemon's internal cancelEmitter
    evDir,          \* file names of the 'change' events queued on the directory watcher
    evFile,         \* 'change' events queued on the file watcher
    reads,          \* readFileContents calls in flight
    lookupPending,  \* psLookup calls in flight
    lookups,        \* psLookup calls started (history)
    kills,          \* ps.kill calls issued (history)
    disposeCalls,   \* DreamDaemonProcess.dispose() calls (history)
    multiFault,     \* a lookup found more than one matching process (history)
    daemonProc,     \* OS process of the daemon
    foreignProc,    \* another OS process whose arguments match the lookup
    logDir,         \* data/logs/unit_test exists
    logFile,        \* game.log: absent, created, marker
    resultsFile,    \* the results artifact of the configured format: absent, stale
                    \* (of an earlier run), removed, fresh (of this run)
    writes,         \* marker-less writes done by the daemon
    otherLogs,      \* writes the daemon made to other files of the log directory
    faults,         \* injected failures so far
    files,          \* ephemeral artifacts present in the workspace
    pendingRm,      \* rmFile calls of cleanupTest still in flight
    cleanupStarted, \* cleanupTest issued its deletions (history)
    cancelSnap,     \* what the run looked like when the signal was raised (history)
    requested,      \* ids of the requested tests (allTests / tests_to_run)
    artifact,       \* the results artifact found on disk after the daemon stage
    testLog,        \* the TestLog readTestsResults returned
    readErr,        \* the error that left runTest (thrown by a stage or by readTestsResults)
    reported,       \* the per-test outcomes fired to the UI, in order
    errorShown,     \* showError was called (an error message is shown to the user)
    rpc,            \* reading/reporting position: off, read, report, reported, failed
    testStates,     \* adapter: the events fired on testStatesEmitter, in order
    dmeName,        \* project.DMEName as dot-separated parts (<<>>: not set)
    defines,        \* project.defines: the define lines
    focusDefine,    \* project.unitTestsFocusDefine as tokens (<<>>: not set)
    testsToRun,     \* tests_to_run after collectTestItems
    fs,             \* the files of the workspace root: path -> lines
    touched,        \* paths the run created, truncated, wrote or deleted (history)
    inflight,       \* writes issued on the new descriptor's handle and not completed
    mpc,            \* position in makeTestDME and what follows it
    mErr,           \* the error makeTestDME threw
    wi,             \* index of the write loops
    process,        \* runProcess: the child it spawned: none, running, failing, failed, exited
    stdout,         \* runProcess: the chunks appended to its stdout closure variable
    pipe,           \* chunks the child wrote whose 'data' event was not delivered yet, per stream
    emitted,        \* every chunk the child wrote, in the order written (history)
    cancelListener, \* runProcess: its listener is attached to the cancel emitter
    promise,        \* runProcess: none (not called), pending, resolved, rejected
    value,          \* what the promise resolved with
    spawns,         \* child.spawn calls (history)
    fires,          \* cancelEmitter.fire() calls so far
    procKills,      \* process.kill() calls (history)
    uncaught,       \* an 'error' event was emitted on the child with no listener
    running,        \* a run is in progress (DMAdapter.isRunning)
    canceling,      \* DMAdapter.isCanceling / the run's token was cancelled
    runs,           \* runs started so far: the number of the current run
    emitterGen,     \* which EventEmitter object cancelEmitter refers to
    attached,       \* listeners registered on cancel emitters and not disposed
    cancelLog,      \* the cancel() calls: the run in progress (0: none) and whether it fired
    observed,       \* which run's listeners ran during which run (history)
    runCalls,       \* run() calls so far, accepted or not (history)
    dmFiles,        \* the *.dm files of the workspace: each a sequence of lines
    scanned,        \* indices of the files locateTestsInFile went through
    defLastIndex,   \* lastIndex of the RegExp object getUnitTestsDef returned
    suites,         \* per file, the ids of the tests found in it
    loaded,         \* loadTests returned
    \* ---- parallel(concurrent, collection, processor)
    concurrent,     \* the limit handed to parallel
    collection,     \* number of items of the collection (the items are 1..collection)
    ppc,            \* position of parallel: off, race, all, resolved, rejected
    queue,          \* the array queue: the promises p not yet spliced out, by item
    waitingOn,      \* the promises handed to the pending Promise.race / Promise.all
    invocation,     \* per item: none, running, fulfilled (callback due), spliced, rejected
    invoked,        \* per item: number of processor calls (history)
    settleOrder,    \* the items in the order in which their promise p settled
    testSuites      \* the results the processors pushed

vars == <<variant, resultsType, pc, result, pendingErr, isRunning, isCanceling,
          listeners, prebuildProc, compilerProc, ddStarted, ddIsRunning,
          ddIsDisposed, watcher, watchListener, evDir, evFile, reads,
          lookupPending, lookups, kills, disposeCalls, multiFault, daemonProc,
          foreignProc, logDir, logFile, resultsFile, writes, otherLogs, faults, files, pendingRm,
          cleanupStarted, cancelSnap, requested, artifact, testLog, readErr,
          reported, errorShown, rpc, testStates, dmeName, defines, focusDefine, testsToRun,
          fs, touched, inflight, mpc, mErr, wi, process, stdout, pipe, emitted,
          cancelListener, promise, value, spawns, fires, procKills, uncaught,
          running, canceling, runs, emitterGen, attached, cancelLog, observed,
          runCalls,
          dmFiles, scanned, defLastIndex, suites, loaded,
          concurrent, collection, ppc, queue, waitingOn, invocation, invoked,
          settleOrder, testSuites>>

pipelineVars == <<variant, resultsType, pc, result, pendingErr, isRunning, isCanceling,
          listeners, prebuildProc, compilerProc, ddStarted, ddIsRunning,
          ddIsDisposed, watcher, watchListener, evDir, evFile, reads,
          lookupPending, lookups, kills, disposeCalls, multiFault, daemonProc,
          foreignProc, logDir, logFile, resultsFile, writes, otherLogs, faults, files, pendingRm,
          cleanupStarted, cancelSnap>>

reconcileVars == <<requested, artifact, testLog, readErr, reported, errorShown, rpc,
                   testStates>>

artifactVars == <<dmeName, defines, focusDefine, testsToRun, fs, touched, inflight,
                  mpc, mErr, wi>>

processVars == <<process, stdout, pipe, emitted, cancelListener, promise, value,
                 spawns, fires, procKills, uncaught>>

signalVars == <<running, canceling, runs, emitterGen, attached, cancelLog, observed,
                runCalls>>

discoveryVars == <<dmFiles, scanned, defLastIndex, suites, loaded>>

parallelVars == <<concurrent, collection, ppc, queue, waitingOn, invocation, invoked,
                  settleOrder, testSuites>>

unitVars == <<processVars, signalVars, discoveryVars, parallelVars>>

NoCancel == [at |-> "never", compiler |-> "none", daemon |-> "none"]

\* The current state as one record; rej is the rejection of the promise
\* the pipeline awaits, raised during the task and not yet propagated.
Cur ==
    [variant |-> variant, resultsType |-> resultsType, pc |-> pc,
     result |-> result, pendingErr |-> pendingErr, isRunning |-> isRunning,
     isCanceling |-> isCanceling, listeners |-> listeners,
     prebuildProc |-> prebuildProc, compilerProc |-> compilerProc,
     ddStarted |-> ddStarted, ddIsRunning |-> ddIsRunning,
     ddIsDisposed |-> ddIsDisposed, watcher |-> watcher,
     watchListener |-> watchListener, evDir |-> evDir, evFile |-> evFile,
     reads |-> reads, lookupPending |-> lookupPending, lookups |-> lookups,
     kills |-> kills, disposeCalls |-> disposeCalls, multiFault |-> multiFault,
     daemonProc |-> daemonProc, foreignProc |-> foreignProc, logDir |-> logDir,
     logFile |-> logFile, resultsFile |-> resultsFile, writes |-> writes, otherLogs |-> otherLogs, faults |-> faults, files |-> files,
     pendingRm |-> pendingRm, cleanupStarted |-> cleanupStarted,
     cancelSnap |-> cancelSnap, rej |-> "none"]

Commit(s) ==
    /\ s.rej = "none"
    /\ variant' = s.variant
    /\ resultsType' = s.resultsType
    /\ pc' = s.pc
    /\ result' = s.result
    /\ pendingErr' = s.pendingErr
    /\ isRunning' = s.isRunning
    /\ isCanceling' = s.isCanceling
    /\ listeners' = s.listeners
    /\ prebuildProc' = s.prebuildProc
    /\ compilerProc' = s.compilerProc
    /\ ddStarted' = s.ddStarted
    /\ ddIsRunning' = s.ddIsRunning
    /\ ddIsDisposed' = s.ddIsDisposed
    /\ watcher' = s.watcher
    /\ watchListener' = s.watchListener
    /\ evDir' = s.evDir
    /\ evFile' = s.evFile
    /\ reads' = s.reads
    /\ lookupPending' = s.lookupPending
    /\ lookups' = s.lookups
    /\ kills' = s.kills
    /\ disposeCalls' = s.disposeCalls
    /\ multiFault' = s.multiFault
    /\ daemonProc' = s.daemonProc
    /\ foreignProc' = s.foreignProc
    /\ logDir' = s.logDir
    /\ logFile' = s.logFile
    /\ resultsFile' = s.resultsFile
    /\ writes' = s.writes
    /\ otherLogs' = s.otherLogs
    /\ faults' = s.faults
    /\ files' = s.files
    /\ pendingRm' = s.pendingRm
    /\ cleanupStarted' = s.cleanupStarted
    /\ cancelSnap' = s.cancelSnap
    /\ UNCHANGED reconcileVars
    /\ UNCHANGED artifactVars
    /\ UNCHANGED unitVars

\* The pipeline before a run
PipelineIdle ==
    /\ pc = "idle"
    /\ result = "none"
    /\ pendingErr = "none"
    /\ isRunning = FALSE
    /\ isCanceling = FALSE
    /\ listeners = {}
    /\ prebuildProc = "none"
    /\ compilerProc = "none"
    /\ ddStarted = FALSE
    /\ ddIsRunning = FALSE
    /\ ddIsDisposed = FALSE
    /\ watcher = "none"
    /\ watchListener = FALSE
    /\ evDir = <<>>
    /\ evFile = 0
    /\ reads = 0
    /\ lookupPending = 0
    /\ lookups = 0
    /\ kills = 0
    /\ disposeCalls = 0
    /\ multiFault = FALSE
    /\ daemonProc = "none"
    /\ logFile = "absent"
    /\ writes = 0
    /\ otherLogs = 0
    /\ faults = 0
    /\ files = {}
    /\ pendingRm = {}
    /\ cleanupStarted = FALSE
    /\ cancelSnap = NoCancel

\* makeTestDME not entered
ArtifactsIdle ==
    /\ dmeName = <<>>
    /\ defines = <<>>
    /\ focusDefine = <<>>
    /\ testsToRun = <<>>
    /\ fs = <<>>
    /\ touched = {}
    /\ inflight = {}
    /\ mpc = "off"
    /\ mErr = "none"
    /\ wi = 0

\* runProcess not called
ProcessIdle ==
    /\ process = "none"
    /\ stdout = <<>>
    /\ pipe = [out |-> <<>>, err |-> <<>>]
    /\ emitted = <<>>
    /\ cancelListener = FALSE
    /\ promise = "none"
    /\ value = <<>>
    /\ spawns = 0
    /\ fires = 0
    /\ procKills = 0
    /\ uncaught = FALSE

\* No run was requested and nobody called cancel()
SignalIdle ==
    /\ running = FALSE
    /\ canceling = FALSE
    /\ runs = 0
    /\ emitterGen = 0
    /\ attached = {}
    /\ cancelLog = <<>>
    /\ observed = {}
    /\ runCalls = 0

\* loadTests not called
DiscoveryIdle ==
    /\ dmFiles = <<>>
    /\ scanned = {}
    /\ defLastIndex = 0
    /\ suites = <<>>
    /\ loaded = FALSE

\* parallel not called
ParallelIdle ==
    /\ concurrent = 1
    /\ collection = 0
    /\ ppc = "off"
    /\ queue = <<>>
    /\ waitingOn = {}
    /\ invocation = <<>>
    /\ invoked = <<>>
    /\ settleOrder = <<>>
    /\ testSuites = {}

UnitsIdle == ProcessIdle /\ SignalIdle /\ DiscoveryIdle /\ ParallelIdle

NoArtifact == [kind |-> "missing", lines |-> <<>>, entries |-> <<>>]
EmptyLog == [passed_tests |-> <<>>, failed_tests |-> <<>>, skipped_tests |-> <<>>]

Init ==
    /\ variant \in Variants
    /\ resultsType \in ResultTypes
    /\ foreignProc \in {"none", "running"}
    /\ logDir \in BOOLEAN
    /\ PipelineIdle
    /\ resultsFile \in {"absent", "stale"}
    /\ requested = {}
    /\ artifact = NoArtifact
    /\ testLog = EmptyLog
    /\ readErr = "none"
    /\ reported = <<>>
    /\ errorShown = FALSE
    /\ rpc = "off"
    /\ testStates = <<>>
    /\ ArtifactsIdle
    /\ UnitsIdle

(***************************************************************************)
(* Promise plumbing                                                        *)
(***************************************************************************)

\* reject(...) of the promise the pipeline awaits: a promise settles once.
Reject(s, kind) == IF s.rej = "none" THEN [s EXCEPT !.rej = kind] ELSE s

\* End of DMAdapter.run: 'finished' is fired, the cancel emitter is disposed
\* and replaced, the flags are reset.
RunTail(s) ==
    [s EXCEPT !.isRunning = FALSE, !.isCanceling = FALSE, !.listeners = {}]

\* A rejection reaches the orchestrator boundary. adapter: the catch of
\* runAllTests classifies the tests, then run() ends. controller: runTests
\* has no catch, the rejection leaves it.
Fail(s, kind) ==
    LET e == [s EXCEPT !.pc = "done", !.result = kind, !.rej = "none"]
    IN  IF s.variant = "adapter" THEN RunTail(e) ELSE e

(***************************************************************************)
(* DreamDaemonProcess and watchUntil                                       *)
(***************************************************************************)

\* The listener watchUntil attaches to the daemon's internal cancelEmitter.
WatchCancelListener(s) ==
    LET w == [s EXCEPT !.watcher = "closed", !.evDir = <<>>, !.evFile = 0]
    IN  IF s.pc \in {"watchDir", "watchFile"} THEN Reject(w, "CancelError") ELSE w

\* DreamDaemonProcess.dispose() past its guard: fire the internal emitter,
\* start the process lookup (fire-and-forget), dispose the internal emitter.
DisposeBody(s) ==
    LET c == [s EXCEPT !.ddIsDisposed = TRUE]
        f == IF c.watchListener THEN WatchCancelListener(c) ELSE c
    IN  IF c.ddIsRunning
        THEN [f EXCEPT !.lookupPending = @ + 1, !.lookups = @ + 1,
                       !.watchListener = FALSE]
        ELSE [c EXCEPT !.watchListener = FALSE]

\* A dispose() that lacks the "already disposed" guard.
DisposeNoGuard(s) == DisposeBody([s EXCEPT !.disposeCalls = @ + 1])

\* DreamDaemonProcess.dispose()
Dispose(s) ==
    LET c == [s EXCEPT !.disposeCalls = @ + 1]
    IN  IF c.ddIsDisposed THEN c ELSE DisposeBody(c)

\* The rejection raised during this event-loop task propagates: out of waitForFinish
\* through the catch of runDreamDaemonProcess (which disposes the daemon),
\* then through runDMB/compileDME and runTest to the orchestrator boundary.
Settle(s) ==
    IF s.rej = "none" THEN s
    ELSE IF s.pc \in {"watchDir", "watchFile"} THEN Fail(Dispose(s), s.rej)
    ELSE Fail(s, s.rej)

(***************************************************************************)
(* ProcessRunner                                                           *)
(***************************************************************************)

\* A cancel listener that rejects and leaves the process running.
RunProcessCancelListenerNoKill(s) ==
    IF s.pc = "compiling" THEN Reject(s, "CancelError") ELSE s

\* The cancel listener of runProcess: process.kill(); reject(new CancelError())
RunProcessCancelListener(s) ==
    LET k == [s EXCEPT !.compilerProc = IF @ = "running" THEN "killed" ELSE @]
    IN  IF s.pc = "compiling" THEN Reject(k, "CancelError") ELSE k

\* The cancel listener of exec (pre-compile commands)
ExecCancelListener(s) ==
    LET k == [s EXCEPT !.prebuildProc = IF @ = "running" THEN "killed" ELSE @]
    IN  IF s.pc = "prebuild" THEN Reject(k, "CancelError") ELSE k

(***************************************************************************)
(* The cancellation signal                                                 *)
(***************************************************************************)

\* EventEmitter.fire(): the listeners attached now are called, in the order
\* they were attached; a listener attached later never sees this firing.
Fire(s) ==
    LET a == IF "exec" \in s.listeners THEN ExecCancelListener(s) ELSE s
        b == IF "runProcess" \in a.listeners THEN RunProcessCancelListener(a) ELSE a
    IN  IF "daemon" \in b.listeners THEN Dispose(b) ELSE b

\* DMAdapter.cancel() / token.onCancellationRequested(() => cancelEmitter.fire())
CancelRun(s) ==
    Settle(Fire([s EXCEPT !.isCanceling = (s.variant = "adapter"),
                          !.cancelSnap = [at |-> s.pc, compiler |-> s.compilerProc,
                                          daemon |-> s.daemonProc]]))

Cancel ==
    /\ pc \notin {"idle", "done"}
    /\ IF variant = "adapter" THEN isRunning /\ ~isCanceling
                              ELSE cancelSnap = NoCancel
    /\ Commit(CancelRun(Cur))

(***************************************************************************)
(* Pipeline stages                                                         *)
(***************************************************************************)

\* DMAdapter.run -> runAllTests -> runTest, up to the first await of makeTestDME
Run ==
    /\ variant = "adapter"
    /\ pc = "idle"
    /\ ~isRunning
    /\ Commit([Cur EXCEPT !.isRunning = TRUE, !.pc = "makeDME"])

\* runTests up to its first await: the pre-compile command when one is
\* configured (exec), else makeTestDME
RunTests ==
    /\ variant = "controller"
    /\ pc = "idle"
    /\ \E hasPreCompile \in BOOLEAN :
          Commit(IF hasPreCompile
                 THEN [Cur EXCEPT !.pc = "prebuild", !.prebuildProc = "running",
                                  !.listeners = @ \cup {"exec"}]
                 ELSE [Cur EXCEPT !.pc = "makeDME"])

\* exec resolved or failed on the command's exit
ExecExits ==
    /\ pc = "prebuild"
    /\ prebuildProc = "running"
    /\ \E ok \in BOOLEAN :
          LET e == [Cur EXCEPT !.prebuildProc = "exited", !.listeners = @ \ {"exec"}]
          IN  Commit(IF ok THEN [e EXCEPT !.pc = "makeDME"] ELSE Fail(e, "RunError"))

\* A makeTestDME whose failure does not stop the run
MakeTestDMEGoesOn(s, outcome) == [s EXCEPT !.pc = "compilePrep"]

\* What makeTestDME leaves on disk and how it ends, by how far it got:
\* "noDme" getProjectName throws, "badFocus" getFocusDefine throws after the
\* three files were opened, "ok" it returns.
MakeTestDMEResult(s, outcome) ==
    LET written == IF s.variant = "controller" THEN {"dme", "focus"} ELSE {"dme"}
    IN  CASE outcome = "noDme"    -> Fail(s, "ConfigError")
          [] outcome = "badFocus" -> Fail([s EXCEPT !.files = @ \cup written], "ConfigError")
          [] OTHER                -> [s EXCEPT !.files = @ \cup written, !.pc = "compilePrep"]

MakeTestDME ==
    /\ pc = "makeDME"
    /\ \E outcome \in {"ok", "noDme", "badFocus"} :
          /\ outcome = "badFocus" => variant = "controller"
          /\ Commit(MakeTestDMEResult(Cur, outcome))

\* compileDME: getDreammakerExecutable resolved, runProcess spawns the
\* compiler and attaches its cancel listener
CompilePrep ==
    /\ pc = "compilePrep"
    /\ \E found \in BOOLEAN :
          Commit(IF found
                 THEN [Cur EXCEPT !.pc = "compiling", !.compilerProc = "running",
                                  !.listeners = @ \cup {"runProcess"}]
                 ELSE Fail(Cur, "ConfigError"))

\* The compiler's OS process ends; node has not delivered 'exit' yet.  The
\* output has the success marker or not; a .dmb is on disk or not (one that
\* an earlier run left behind can be there although this compile failed).
CompilerExits ==
    /\ compilerProc = "running"
    /\ \E marker \in BOOLEAN, dmb \in BOOLEAN :
          /\ Commit([Cur EXCEPT !.compilerProc = IF marker THEN "exitedOk" ELSE "exitedFail",
                                !.files = IF dmb THEN @ \cup {"dmb", "rsc"} ELSE @])

\* A stage failed after the compile: the adapter's runTest just throws, the
\* controller's compileDME/runDMB await cleanupTest before they throw.
FailStage(s, kind) ==
    IF s.variant = "controller"
    THEN [s EXCEPT !.pc = "failCleanup", !.pendingErr = kind]
    ELSE Fail(s, kind)

\* A compileDME that does not scan the compiler's output for the marker
OnCompilerExitNoScan ==
    /\ compilerProc \in {"exitedOk", "exitedFail", "killed"}
    /\ "runProcess" \in listeners
    /\ LET e == [Cur EXCEPT !.listeners = @ \ {"runProcess"}]
       IN  Commit(IF pc # "compiling" THEN e ELSE [e EXCEPT !.pc = "compilePost"])

\* process.once('exit'): the listener is disposed, the promise resolves with
\* the output; compileDME scans it for the success marker.
OnCompilerExit ==
    /\ compilerProc \in {"exitedOk", "exitedFail", "killed"}
    /\ "runProcess" \in listeners
    /\ LET e == [Cur EXCEPT !.listeners = @ \ {"runProcess"}]
       IN  Commit(IF pc # "compiling" THEN e
                  ELSE IF compilerProc = "exitedOk" THEN [e EXCEPT !.pc = "compilePost"]
                  ELSE FailStage(e, "RunError"))

\* compileDME: getProjectName resolved, the .dmb path is returned; runDMB
\* starts and awaits exists(path)
CompilePost ==
    /\ pc = "compilePost"
    /\ Commit([Cur EXCEPT !.pc = "dmbPrep"])

\* new DreamDaemonProcess(cmd, args): exec of the daemon, isRunning = true;
\* runDreamDaemonProcess then attaches its listener to the run's emitter.
LaunchDaemon(s) ==
    [s EXCEPT !.ddStarted = TRUE, !.ddIsRunning = TRUE, !.daemonProc = "running",
              !.listeners = @ \cup {"daemon"}]

\* watchUntil(dir, ...): fs.watch throws when the directory does not exist
\* (the executor's throw rejects the promise), else the watcher is open and
\* the listener is attached to the daemon's internal emitter.
WatchDirectory(s) ==
    IF s.logDir
    THEN [s EXCEPT !.watcher = "dir", !.watchListener = TRUE, !.evDir = <<>>,
                   !.pc = "watchDir"]
    ELSE Reject([s EXCEPT !.pc = "watchDir"], "Error")

\* rmFile, and rmDir for a file of the directory: an existing file is
\* unlinked, a missing one is left missing
Unlinked(file) == IF file = "absent" THEN "absent" ELSE "removed"

\* A preparation that deals with the line-log format only
PrepareLogDirOnly(s) ==
    IF s.resultsType = "log"
    THEN [s EXCEPT !.logDir = TRUE, !.logFile = "absent", !.resultsFile = Unlinked(@)]
    ELSE s

\* runDMB's preparation: the log format empties and recreates
\* data/logs/unit_test (game.log and tests.log included), the json format
\* leaves the directory as it is and removes data/unit_tests.json
PrepareLogDir(s) ==
    IF s.resultsType = "log"
    THEN [s EXCEPT !.logDir = TRUE, !.logFile = "absent", !.resultsFile = Unlinked(@)]
    ELSE [s EXCEPT !.resultsFile = Unlinked(@)]

\* runDMB up to the first await inside waitForFinish
DmbPrep ==
    /\ pc = "dmbPrep"
    /\ IF "dmb" \notin files
       THEN Commit(FailStage(Cur, "RunError"))
       ELSE \E ddFound \in BOOLEAN :
               Commit(IF ddFound
                      THEN Settle(WatchDirectory(LaunchDaemon(PrepareLogDir(Cur))))
                      ELSE Fail(PrepareLogDir(Cur), "ConfigError"))

(***************************************************************************)
(* The daemon (environment) and the filesystem events it causes            *)
(***************************************************************************)

\* A write to game.log reaches the watcher that is open at that moment.
EmitChange(s, fname) ==
    IF s.watcher = "dir" THEN [s EXCEPT !.evDir = Append(@, fname)]
    ELSE IF s.watcher = "file" /\ fname = "game.log" THEN [s EXCEPT !.evFile = @ + 1]
    ELSE s

DaemonCreatesLog ==
    /\ daemonProc = "running"
    /\ logFile = "absent"
    /\ Commit(EmitChange([Cur EXCEPT !.logDir = TRUE, !.logFile = "created"], "game.log"))

DaemonWrites ==
    /\ daemonProc = "running"
    /\ logFile = "created"
    /\ writes < MaxWrites
    /\ Commit(EmitChange([Cur EXCEPT !.writes = @ + 1], "game.log"))

DaemonWritesMarker ==
    /\ daemonProc = "running"
    /\ logFile = "created"
    /\ Commit(EmitChange([Cur EXCEPT !.logFile = "marker"], "game.log"))

DaemonWritesOtherLog ==
    /\ daemonProc = "running"
    /\ logDir
    /\ otherLogs < MaxOtherLogs
    /\ Commit(EmitChange([Cur EXCEPT !.otherLogs = @ + 1], "other.log"))

\* The daemon writes the results artifact; tests.log lies in the watched
\* directory, unit_tests.json does not
DaemonWritesResults ==
    /\ daemonProc = "running"
    /\ resultsFile # "fresh"
    /\ LET s == [Cur EXCEPT !.resultsFile = "fresh"]
       IN  Commit(IF resultsType = "log" THEN EmitChange(s, "other.log") ELSE s)

DaemonExits ==
    /\ daemonProc = "running"
    /\ logFile = "marker"
    /\ Commit([Cur EXCEPT !.daemonProc = "exited"])

(***************************************************************************)
(* Watch handlers                                                          *)
(***************************************************************************)

\* watchUntil(filepath, ...) of phase B
WatchFile(s) ==
    [s EXCEPT !.watcher = "file", !.watchListener = TRUE, !.evFile = 0,
              !.pc = "watchFile"]

\* A directory callback that takes any file name for the expected one
DirEventAlwaysDone(fname) == TRUE

\* waitForFileInDirChange's callback
DirEventIsDone(fname) == fname = "game.log"

\* 'change' on the directory watcher: when the callback says done the
\* watcher is closed, the listener disposed and the promise resolved;
\* waitForFinish goes on to phase B.
HandleDirEvent ==
    /\ watcher = "dir"
    /\ evDir # <<>>
    /\ LET e == [Cur EXCEPT !.evDir = Tail(@)]
       IN  Commit(IF DirEventIsDone(Head(evDir))
                  THEN WatchFile([e EXCEPT !.watcher = "closed", !.evDir = <<>>,
                                           !.watchListener = FALSE])
                  ELSE e)

\* 'change' on the file watcher: the callback starts reading the file
HandleFileEvent ==
    /\ watcher = "file"
    /\ evFile > 0
    /\ Commit([Cur EXCEPT !.evFile = @ - 1, !.reads = @ + 1])

\* A checkdone that is satisfied by any content
CheckDoneAlways(contents) == TRUE

\* checkdone of waitForFinish on the content read
CheckDone(contents) == contents = "marker"

\* A waitForFinish that leaves isRunning set when it returns.
DaemonFinishedStillRunning(s) == [s EXCEPT !.pc = "readResults"]

\* waitForFinish after phase B resolved: isRunning = false; runDMB and
\* runDreamDaemonProcess return, runTest awaits readTestsResults
DaemonFinished(s) ==
    [s EXCEPT !.ddIsRunning = FALSE, !.pc = "readResults"]

\* readFileContents resolved: on the marker the watcher is closed, the
\* listener disposed, the promise resolved (a no-op on a settled promise)
ReadCompletes ==
    /\ reads > 0
    /\ LET e == [Cur EXCEPT !.reads = @ - 1]
           c == [e EXCEPT !.watcher = IF @ = "file" THEN "closed" ELSE @,
                          !.evFile = 0, !.watchListener = FALSE]
       IN  Commit(IF ~CheckDone(logFile) THEN e
                  ELSE IF pc = "watchFile" THEN DaemonFinished(c)
                  ELSE c)

\* readFileContents rejected: .catch(reject)
ReadFails ==
    /\ reads > 0
    /\ faults < MaxFaults
    /\ LET e == [Cur EXCEPT !.reads = @ - 1, !.faults = @ + 1]
       IN  Commit(IF pc = "watchFile" THEN Settle(Reject(e, "Error")) ELSE e)

\* watcher.on('error'): the listener is disposed and the promise rejected
\* with the watcher's error
WatchError ==
    /\ watcher \in {"dir", "file"}
    /\ faults < MaxFaults
    /\ Commit(Settle(Reject([Cur EXCEPT !.watcher = "errored", !.evDir = <<>>,
                                        !.evFile = 0, !.watchListener = FALSE,
                                        !.faults = @ + 1], "Error")))

\* The processes psLookup reports: those alive whose arguments match
Matching(s) ==
    (IF s.daemonProc = "running" THEN {"daemon"} ELSE {}) \cup
    (IF s.foreignProc = "running" THEN {"foreign"} ELSE {})

KillProcess(s, p) ==
    IF p = "daemon" THEN [s EXCEPT !.kills = @ + 1, !.daemonProc = "killed"]
    ELSE [s EXCEPT !.kills = @ + 1, !.foreignProc = "killed"]

\* The .then/.catch of psLookup in dispose(): none found, nothing is done;
\* more than one, the Error thrown is caught and logged; one, it is killed.
LookupResult(s) ==
    LET m == Matching(s)
    IN  IF m = {} THEN s
        ELSE IF Cardinality(m) > 1 THEN [s EXCEPT !.multiFault = TRUE]
        ELSE KillProcess(s, CHOOSE p \in m : TRUE)

LookupCompletes ==
    /\ lookupPending > 0
    /\ Commit(LookupResult([Cur EXCEPT !.lookupPending = @ - 1]))

(***************************************************************************)
(* Result reading and cleanup                                              *)
(***************************************************************************)

\* readTestsResults: the artifact is missing (ConfigError), unreadable
\* (the error of JSON.parse or of the scan), or read
ReadOutcomes(file) ==
    IF file \in {"absent", "removed"} THEN {"missing"} ELSE {"ok", "bad"}

ReadResults ==
    /\ pc = "readResults"
    /\ \E outcome \in ReadOutcomes(resultsFile) :
          Commit(CASE outcome = "missing" -> Fail(Cur, "ConfigError")
                   [] outcome = "bad"     -> Fail(Cur, "Error")
                   [] OTHER               -> [Cur EXCEPT !.pc = "cleanup"])

\* The files cleanupTest deletes
CleanupTargets(s) ==
    IF s.variant = "controller" THEN {"dmb", "dme", "dynrsc", "rsc", "focus"}
    ELSE {"dmb", "dme", "dynrsc", "rsc"}

\* cleanupTest after getProjectName resolved: one rmFile per artifact is
\* started and not awaited
CleanupTest(s) ==
    [s EXCEPT !.cleanupStarted = TRUE, !.pendingRm = @ \cup CleanupTargets(s)]

\* The run returns its results: runTest returns the log and run() ends
\* (adapter), run.end() (controller)
Succeed(s) ==
    LET e == [s EXCEPT !.pc = "done", !.result = "ok"]
    IN  IF s.variant = "adapter" THEN RunTail(e) ELSE e

Cleanup ==
    /\ pc = "cleanup"
    /\ Commit(Succeed(CleanupTest(Cur)))

\* controller: the cleanupTest awaited by compileDME/runDMB before they throw
FailCleanup ==
    /\ pc = "failCleanup"
    /\ Commit(Fail([CleanupTest(Cur) EXCEPT !.pendingErr = "none"], pendingErr))

\* rmFile: the file is unlinked when it exists
RmFile ==
    \E f \in pendingRm :
        Commit([Cur EXCEPT !.pendingRm = @ \ {f}, !.files = @ \ {f}])

Next ==
    \/ Run
    \/ RunTests
    \/ ExecExits
    \/ MakeTestDME
    \/ CompilePrep
    \/ CompilerExits
    \/ OnCompilerExit
    \/ CompilePost
    \/ DmbPrep
    \/ DaemonCreatesLog
    \/ DaemonWrites
    \/ DaemonWritesMarker
    \/ DaemonWritesOtherLog
    \/ DaemonWritesResults
    \/ DaemonExits
    \/ HandleDirEvent
    \/ HandleFileEvent
    \/ ReadCompletes
    \/ ReadFails
    \/ WatchError
    \/ LookupCompletes
    \/ ReadResults
    \/ Cleanup
    \/ FailCleanup
    \/ RmFile
    \/ Cancel

Spec == Init /\ [][Next]_vars

\* The scheduling the event loop and the operating system guarantee: every
\* pending completion, event and daemon step is eventually taken. Nothing
\* obliges the user to cancel or the filesystem to fail.
Progress ==
    \/ Run
    \/ RunTests
    \/ ExecExits
    \/ MakeTestDME
    \/ CompilePrep
    \/ CompilerExits
    \/ OnCompilerExit
    \/ CompilePost
    \/ DmbPrep
    \/ DaemonCreatesLog
    \/ DaemonWrites
    \/ DaemonWritesMarker
    \/ DaemonWritesOtherLog
    \/ DaemonWritesResults
    \/ DaemonExits
    \/ HandleDirEvent
    \/ HandleFileEvent
    \/ ReadCompletes
    \/ LookupCompletes
    \/ ReadResults
    \/ Cleanup
    \/ FailCleanup
    \/ RmFile

FairSpec == Init /\ [][Next]_vars /\ WF_vars(Progress)

(***************************************************************************)
(* Result reading and reconciliation (readTestsResults and the reporting   *)
(* loop).  Text is modelled at the granularity the parsers distinguish:    *)
(* a line is a sequence of tokens, where "[" is an opening bracket,        *)
(* "PASS" and "FAIL" are the literals "PASS: /datum/unit_test/" and        *)
(* "FAIL: /datum/unit_test/", "-" is the literal " - \t", a token of       *)
(* IdChars is one character of [\w\/], and "x" is any other character.     *)
(***************************************************************************)
MaxLines == 3
MaxEntries == 2

IdChars == {"a", "b"}
TestIds == {<<"a">>, <<"b">>, <<"c">>}
UnitTestPrefix == <<"/datum/unit_test/">>
Undefined == << <<"undefined">> >>

LogLines == {<<"[", "PASS", "a">>, <<"[", "PASS", "b">>, <<"[", "FAIL", "a">>,
             <<"[", "FAIL", "b">>, <<"-", "x">>, <<"[", "x">>, <<>>}
LogTexts == UNION {[1..n -> LogLines] : n \in 1..MaxLines}

JsonKeys == {<<"/datum/unit_test/", "a">>, <<"/datum/unit_test/", "b">>, <<"a">>}
JsonEntries == [key : JsonKeys, status : 0..3, message : {<<>>, << <<"x">> >>}]
JsonObjects == {o \in UNION {[1..n -> JsonEntries] : n \in 0..MaxEntries} :
                   \A i, j \in DOMAIN o : i # j => o[i].key # o[j].key}

LogArtifacts == {[kind |-> "log", lines |-> l, entries |-> <<>>] : l \in LogTexts}
JsonArtifacts == {[kind |-> "json", lines |-> <<>>, entries |-> e] : e \in JsonObjects}
Garbage == [kind |-> "garbage", lines |-> <<>>, entries |-> <<>>]
Unread == [kind |-> "unread", lines |-> <<>>, entries |-> <<>>]

\* Length of the run of [\w\/] characters of line that starts at position i
RECURSIVE IdRun(_, _)
IdRun(line, i) ==
    IF i <= Len(line) /\ line[i] \in IdChars THEN 1 + IdRun(line, i + 1) ELSE 0

\* RegExp.prototype.exec of a global /KW: \/datum\/unit_test\/([\w\/]+)/g:
\* the leftmost match at or after lastIndex; no match resets lastIndex to 0
RegExec(line, kw, lastIndex) ==
    LET starts == {i \in 1..Len(line) :
                      i > lastIndex /\ line[i] = kw /\ IdRun(line, i + 1) > 0}
    IN  IF starts = {}
        THEN [found |-> FALSE, id |-> <<>>, lastIndex |-> 0]
        ELSE LET i == CHOOSE x \in starts : \A y \in starts : x <= y
                 n == IdRun(line, i + 1)
             IN  [found |-> TRUE, id |-> SubSeq(line, i + 1, i + n),
                  lastIndex |-> i + n]

RECURSIVE AllMatches(_, _, _)
AllMatches(line, kw, lastIndex) ==
    LET m == RegExec(line, kw, lastIndex)
    IN  IF m.found
        THEN <<[id |-> m.id, message |-> Undefined]>> \o AllMatches(line, kw, m.lastIndex)
        ELSE <<>>

\* while ((match = passRegexp.exec(text)) != null): no match spans a newline
RECURSIVE PassScan(_, _)
PassScan(lines, k) ==
    IF k > Len(lines) THEN <<>>
    ELSE AllMatches(lines[k], "PASS", 0) \o PassScan(lines, k + 1)

StartsWithBracket(line) == Len(line) >= 1 /\ line[1] = "["
StripLead(line) == IF Len(line) >= 1 /\ line[1] = "-" THEN Tail(line) ELSE line

\* The inner loop that consumes the failure reasons: lines[linenum] is read
\* before linenum is compared with lines.length, so running off the end of
\* the text throws a TypeError
RECURSIVE ConsumeReasons(_, _, _)
ConsumeReasons(lines, n, acc) ==
    IF n > Len(lines) THEN [crashed |-> TRUE, next |-> n, comment |-> acc]
    ELSE IF StartsWithBracket(lines[n]) THEN [crashed |-> FALSE, next |-> n, comment |-> acc]
    ELSE ConsumeReasons(lines, n + 1, Append(acc, StripLead(lines[n])))

\* The outer loop over the lines; failRegexp is global, so its lastIndex
\* carries over from one line to the next
RECURSIVE FailScan(_, _, _, _)
FailScan(lines, n, lastIndex, acc) ==
    IF n > Len(lines) THEN [crashed |-> FALSE, failed |-> acc]
    ELSE LET m == RegExec(lines[n], "FAIL", lastIndex)
         IN  IF m.found
             THEN LET c == ConsumeReasons(lines, n + 1, <<>>)
                  IN  IF c.crashed THEN [crashed |-> TRUE, failed |-> acc]
                      ELSE FailScan(lines, c.next, m.lastIndex,
                                    Append(acc, [id |-> m.id, message |-> c.comment]))
             ELSE FailScan(lines, n + 1, 0, acc)

\* A trimStart that returns its subject unchanged
TrimStartKeep(subject, text) == subject

TrimStart(subject, text) ==
    IF Len(subject) >= Len(text) /\ SubSeq(subject, 1, Len(text)) = text
    THEN SubSeq(subject, Len(text) + 1, Len(subject))
    ELSE subject

SelectStatus(entries, st) ==
    LET RECURSIVE Go(_)
        Go(k) == IF k > Len(entries) THEN <<>>
                 ELSE (IF entries[k].status = st
                       THEN <<[id |-> TrimStart(entries[k].key, UnitTestPrefix),
                               message |-> entries[k].message]>>
                       ELSE <<>>) \o Go(k + 1)
    IN  Go(1)

Ids(results) == {results[i].id : i \in DOMAIN results}

RECURSIVE SetToSeq(_)
SetToSeq(S) ==
    IF S = {} THEN <<>>
    ELSE LET x == CHOOSE y \in S : TRUE IN <<x>> \o SetToSeq(S \ {x})

Events(results, class, state) ==
    [i \in DOMAIN results |->
        [id |-> results[i].id, class |-> class, state |-> state,
         message |-> IF state = "passed" THEN Undefined ELSE results[i].message]]

\* message ?? ""
Coalesce(message) == IF message = Undefined THEN <<>> ELSE message

\* readTestsLog: what it returns (log) or throws (err) for the file found
ReadLogFile(art) ==
    IF art.kind = "missing" THEN [err |-> "ConfigError", log |-> EmptyLog]
    ELSE LET f == FailScan(art.lines, 1, 0, <<>>)
         IN  IF f.crashed THEN [err |-> "Error", log |-> EmptyLog]
             ELSE [err |-> "none",
                   log |-> [passed_tests |-> PassScan(art.lines, 1),
                            failed_tests |-> f.failed,
                            skipped_tests |-> <<>>]]

\* A readTestsJson that takes a missing file for an empty result
ReadJsonFileMissingAsEmpty(art) ==
    IF art.kind = "garbage" THEN [err |-> "Error", log |-> EmptyLog]
    ELSE [err |-> "none",
          log |-> [passed_tests |-> SelectStatus(art.entries, 0),
                   failed_tests |-> SelectStatus(art.entries, 1),
                   skipped_tests |-> SelectStatus(art.entries, 2)]]

\* readTestsJson: what it returns (log) or throws (err) for the file found
ReadJsonFile(art) ==
    IF art.kind = "missing" THEN [err |-> "ConfigError", log |-> EmptyLog]
    ELSE IF art.kind = "garbage" THEN [err |-> "Error", log |-> EmptyLog]
    ELSE [err |-> "none",
          log |-> [passed_tests |-> SelectStatus(art.entries, 0),
                   failed_tests |-> SelectStatus(art.entries, 1),
                   skipped_tests |-> SelectStatus(art.entries, 2)]]

\* runTest's await of readTestsResults settles with r
ReadSettles(r) ==
    /\ testLog' = r.log
    /\ readErr' = r.err
    /\ rpc' = IF r.err = "none" THEN "report" ELSE "failed"
    /\ UNCHANGED <<requested, artifact, reported, errorShown, testStates>>
    /\ UNCHANGED pipelineVars
    /\ UNCHANGED artifactVars
    /\ UNCHANGED unitVars

ReadTestsLog ==
    /\ rpc = "read"
    /\ resultsType = "log"
    /\ ReadSettles(ReadLogFile(artifact))

ReadTestsJson ==
    /\ rpc = "read"
    /\ resultsType = "json"
    /\ ReadSettles(ReadJsonFile(artifact))

\* runAllTests: one event per entry of each list of the TestLog, then one
\* 'skipped' event per requested test that is in none of the lists
\* The suite (file) a test was found in
SuiteOf(t) == IF t = <<"c">> THEN "suite_2" ELSE "suite_1"

\* The loaded suites: loadTests drops the suites without tests
Suites(tests) == {SuiteOf(t) : t \in tests}

\* A forEach over the suites that fires nothing
NoSuiteEvents(tests, state) == <<>>

\* tests.forEach(suite => fire({type: 'suite', suite: suite.id, state}))
SuiteEvents(tests, state) ==
    LET ss == SetToSeq(Suites(tests))
    IN  [i \in DOMAIN ss |-> [type |-> "suite", id |-> ss[i], state |-> state]]

\* The per-test events fired for a sequence of outcomes
FinalEvents(outcomes) ==
    [i \in DOMAIN outcomes |->
        [type |-> "test", id |-> outcomes[i].id, state |-> outcomes[i].state]]

\* run() and runAllTests up to the await of runTest: 'started', then per
\* suite its 'running' event followed by the 'running' events of its tests
RECURSIVE RunningEvents(_, _)
RunningEvents(tests, ss) ==
    IF ss = <<>> THEN <<>>
    ELSE LET mine == SetToSeq({t \in tests : SuiteOf(t) = Head(ss)})
         IN  <<[type |-> "suite", id |-> Head(ss), state |-> "running"]>>
             \o [i \in DOMAIN mine |-> [type |-> "test", id |-> mine[i], state |-> "running"]]
             \o RunningEvents(tests, Tail(ss))

StartedEvents(tests) ==
    <<[type |-> "started", id |-> "", state |-> ""]>>
    \o RunningEvents(tests, SetToSeq(Suites(tests)))

ReportAdapter ==
    /\ rpc = "report"
    /\ variant = "adapter"
    /\ LET ignored == {t \in requested :
                          /\ t \notin Ids(testLog.passed_tests)
                          /\ t \notin Ids(testLog.failed_tests)
                          /\ t \notin Ids(testLog.skipped_tests)}
           ign == SetToSeq(ignored)
       IN  reported' = Events(testLog.passed_tests, "Passed", "passed")
                       \o Events(testLog.failed_tests, "Failed", "failed")
                       \o Events(testLog.skipped_tests, "Skipped", "skipped")
                       \o [i \in DOMAIN ign |-> [id |-> ign[i], class |-> "Ignored",
                                                 state |-> "skipped", message |-> Undefined]]
    /\ rpc' = "reported"
    /\ testStates' = testStates \o SuiteEvents(requested, "completed") \o FinalEvents(reported')
    /\ UNCHANGED <<requested, artifact, testLog, readErr, errorShown>>
    /\ UNCHANGED pipelineVars
    /\ UNCHANGED artifactVars
    /\ UNCHANGED unitVars

Find(results, id) ==
    LET hits == {i \in DOMAIN results : results[i].id = id}
    IN  IF hits = {} THEN 0 ELSE CHOOSE i \in hits : \A j \in hits : i <= j

\* runTests: tests_to_run.forEach looks each requested test up, first among
\* the failed, then the passed, then the skipped results; a skipped test is
\* reported with run.failed and a test in none of the lists is not reported
ReportController ==
    /\ rpc = "report"
    /\ variant = "controller"
    /\ LET tests == SetToSeq(requested)
           One(t) ==
               LET f == Find(testLog.failed_tests, t)
                   p == Find(testLog.passed_tests, t)
                   k == Find(testLog.skipped_tests, t)
               IN  IF f > 0 THEN [id |-> t, class |-> "Failed", state |-> "failed",
                                  message |-> Coalesce(testLog.failed_tests[f].message)]
                   ELSE IF p > 0 THEN [id |-> t, class |-> "Passed", state |-> "passed",
                                       message |-> Undefined]
                   ELSE IF k > 0 THEN [id |-> t, class |-> "Skipped", state |-> "failed",
                                       message |-> Coalesce(testLog.skipped_tests[k].message)]
                   ELSE [id |-> t, class |-> "Ignored", state |-> "none",
                         message |-> Undefined]
       IN  reported' = [i \in DOMAIN tests |-> One(tests[i])]
    /\ rpc' = "reported"
    /\ UNCHANGED <<requested, artifact, testLog, readErr, errorShown, testStates>>
    /\ UNCHANGED pipelineVars
    /\ UNCHANGED artifactVars
    /\ UNCHANGED unitVars

\* The catch of runAllTests: on CancelError every test is fired as skipped;
\* on any other error showError is called and every test is fired as errored
CatchAdapter ==
    /\ rpc = "failed"
    /\ variant = "adapter"
    /\ LET tests == SetToSeq(requested)
           state == IF readErr = "CancelError" THEN "skipped" ELSE "errored"
           msg == IF readErr = "CancelError" THEN Undefined ELSE << <<readErr>> >>
       IN  reported' = [i \in DOMAIN tests |->
                           [id |-> tests[i], class |-> "none", state |-> state,
                            message |-> msg]]
    /\ testStates' = testStates \o FinalEvents(reported') \o SuiteEvents(requested, "completed")
    /\ errorShown' = (readErr # "CancelError")
    /\ rpc' = "caught"
    /\ UNCHANGED <<requested, artifact, testLog, readErr>>
    /\ UNCHANGED pipelineVars
    /\ UNCHANGED artifactVars
    /\ UNCHANGED unitVars

\* runTests has no try/catch: the rejection of an awaited stage leaves it
\* before the reporting loop, and no state is set on any test
UncaughtController ==
    /\ rpc = "failed"
    /\ variant = "controller"
    /\ rpc' = "uncaught"
    /\ UNCHANGED <<requested, artifact, testLog, readErr, reported, errorShown, testStates>>
    /\ UNCHANGED pipelineVars
    /\ UNCHANGED artifactVars
    /\ UNCHANGED unitVars

\* The tail of run() after runAllTests returned: 'finished' is fired
RunFinishes ==
    /\ variant = "adapter"
    /\ rpc \in {"reported", "caught"}
    /\ testStates[Len(testStates)].type # "finished"
    /\ testStates' = Append(testStates, [type |-> "finished", id |-> "", state |-> ""])
    /\ UNCHANGED <<requested, artifact, testLog, readErr, reported, errorShown, rpc>>
    /\ UNCHANGED pipelineVars
    /\ UNCHANGED artifactVars
    /\ UNCHANGED unitVars

StageErrors == {"CancelError", "RunError", "ConfigError", "Error"}

\* Either the daemon stage finished and readTestsResults is about to run on
\* the artifact found, or an earlier stage already rejected with some kind
InitReconcile ==
    /\ variant \in Variants
    /\ resultsType \in ResultTypes
    /\ foreignProc = "none"
    /\ logDir = TRUE
    /\ PipelineIdle
    /\ resultsFile = "absent"
    /\ requested \in SUBSET TestIds
    /\ testLog = EmptyLog
    /\ reported = <<>>
    /\ errorShown = FALSE
    /\ testStates = IF variant = "adapter" THEN StartedEvents(requested) ELSE <<>>
    /\ ArtifactsIdle
    /\ UnitsIdle
    /\ \/ /\ rpc = "read"
          /\ readErr = "none"
          /\ artifact \in IF resultsType = "log"
                          THEN LogArtifacts \cup {NoArtifact}
                          ELSE JsonArtifacts \cup {NoArtifact, Garbage}
       \/ /\ rpc = "failed"
          /\ readErr \in StageErrors
          /\ artifact = Unread

NextReconcile ==
    \/ ReadTestsLog
    \/ ReadTestsJson
    \/ ReportAdapter
    \/ ReportController
    \/ CatchAdapter
    \/ UncaughtController
    \/ RunFinishes

SpecReconcile == InitReconcile /\ [][NextReconcile]_vars

(***************************************************************************)
(* Claims                                                                  *)
(***************************************************************************)

Cancelled == cancelSnap # NoCancel

\* C1: on every exit path of a run (success, failure of any stage,
\* cancellation) cleanup of the ephemeral artifacts has been started before
\* the run returns or rethrows. (Stated for the runs that left an artifact on
\* disk: the others have nothing to clean.)
C1_CleanupOnEveryExit == (pc = "done" /\ files # {}) => cleanupStarted

\* C2: once the outcomes are reported, every requested id is placed in exactly
\* one of Passed, Failed, Skipped, Ignored, no id is placed twice, and no id
\* outside the requested set is placed at all
C2_OutcomePartition ==
    rpc = "reported" =>
        /\ \A t \in requested :
              Cardinality({i \in DOMAIN reported : reported[i].id = t}) = 1
        /\ \A i \in DOMAIN reported : reported[i].id \in requested

\* C3: when the signal is raised while the compiler process is running, the
\* compiler is killed, the run ends with CancelError and no daemon is ever
\* started in that run.
C3_CancelDuringCompile ==
    (cancelSnap.at = "compiling" /\ cancelSnap.compiler = "running")
        => /\ compilerProc = "killed"
           /\ result = "CancelError"
           /\ ~ddStarted
           /\ daemonProc = "none"

C3_Witness ==
    /\ cancelSnap.at = "compiling"
    /\ cancelSnap.compiler = "running"
    /\ pc = "done"
    /\ compilerProc = "killed"

\* C4: raising the signal at any point of stage 1, 3 or 4, the awaits before
\* the spawn and after the exit included, aborts the stage: no process of
\* the run is left running, none is spawned afterwards, and the run does not
\* go on to succeed.
C4_CancelAbortsStage ==
    cancelSnap.at \in {"prebuild", "compilePrep", "compiling", "compilePost",
                       "dmbPrep", "watchDir", "watchFile"}
        => /\ result # "ok"
           /\ prebuildProc # "running"
           /\ compilerProc # "running"
           /\ cancelSnap.compiler = "none" => compilerProc = "none"
           /\ cancelSnap.daemon = "none" => daemonProc = "none"

\* C5: a signal raised during stage 2 or stage 5 is not lost: raised during
\* artifact writing it keeps the compiler from being started, and the run
\* does not report success.
C5_CancelNotLost ==
    /\ cancelSnap.at = "makeDME" => compilerProc = "none"
    /\ cancelSnap.at \in {"makeDME", "readResults"} => result # "ok"

C7_KillBeforeCancelError ==
    (result = "CancelError" /\ cancelSnap.at \in {"watchDir", "watchFile"})
        => lookupPending = 0

\* C8: when the lookup finds more than one process carrying the token,
\* nothing is killed and the fault reaches the caller as a RunError.
C8_MultipleMatchesReported ==
    (multiFault /\ cancelSnap.at \in {"watchDir", "watchFile"})
        => (kills = 0 /\ result = "RunError")

\* C9: a signal raised after the daemon finished naturally starts no process
\* lookup, kills nothing and leaves the daemon stage's success in place.
C9_LateCancelNoop ==
    cancelSnap.at \in {"readResults", "cleanup"}
        => /\ lookups = 0
           /\ kills = 0
           /\ daemonProc # "killed"
           /\ result # "CancelError"

C9_Witness ==
    /\ cancelSnap.at \in {"readResults", "cleanup"}
    /\ disposeCalls = 1
    /\ ddIsDisposed

\* C10: once game.log holds the termination marker, the daemon stage
\* eventually resolves, unless the signal was raised or the watch failed.
C10_DaemonEventuallyResolves ==
    (logFile = "marker") ~> ((ddStarted /\ ~ddIsRunning) \/ Cancelled \/ faults > 0)

\* C11: a watch-stream error that is not a cancellation, in either watch
\* phase, makes the daemon run fail with an error of kind RunError
C11_WatchErrorIsRunError ==
    (watcher = "errored" /\ pc = "done") => result = "RunError"

EventsOf(t) == {i \in DOMAIN reported : reported[i].id = t}

\* C12: when a stage fails, every requested test is reported exactly once, as
\* errored if the error kind is not CancelError and as skipped, with no error
\* message shown, if it is CancelError
C12_FailureReportedOnce ==
    rpc \in {"caught", "uncaught"} =>
        /\ \A t \in requested :
              /\ Cardinality(EventsOf(t)) = 1
              /\ \A i \in EventsOf(t) :
                    reported[i].state =
                        IF readErr = "CancelError" THEN "skipped" ELSE "errored"
        /\ readErr = "CancelError" => ~errorShown

StatusOfClass(class) ==
    CASE class = "Passed"  -> "passed"
      [] class = "Failed"  -> "failed"
      [] class = "Skipped" -> "skipped"
      [] class = "Ignored" -> "skipped"

\* C13: in a completed run each requested test is reported passed if the
\* artifact has it Passed, failed if Failed, skipped if Skipped and skipped if
\* it is absent from the artifact
C13_ReportedStatus ==
    rpc = "reported" =>
        /\ \A t \in requested : EventsOf(t) # {}
        /\ \A i \in DOMAIN reported :
              reported[i].id \in requested =>
                  reported[i].state = StatusOfClass(reported[i].class)

\* C19: when the results artifact of the configured format is missing, result
\* reading fails with ConfigError and no test is reported as passed, failed
\* or skipped
C19_MissingArtifactConfigError ==
    (artifact.kind = "missing" /\ rpc # "read") =>
        /\ readErr = "ConfigError"
        /\ rpc \in {"failed", "caught", "uncaught"}
        /\ \A i \in DOMAIN reported :
              reported[i].state \notin {"passed", "failed", "skipped"}

C19_Witness ==
    /\ artifact.kind = "missing"
    /\ rpc = "caught"
    /\ readErr = "ConfigError"
    /\ requested # {}

StripPrefix(key) == IF key[1] = "/datum/unit_test/" THEN Tail(key) ELSE key

EntriesWithStatus(st) ==
    LET Has(e) == e.status = st
        sel == SelectSeq(artifact.entries, Has)
    IN  [j \in DOMAIN sel |-> [id |-> StripPrefix(sel[j].key), message |-> sel[j].message]]

ExampleEntries(m) ==
    <<[key |-> <<"/datum/unit_test/", "a">>, status |-> 0, message |-> m],
      [key |-> <<"/datum/unit_test/", "b">>, status |-> 1, message |-> << <<"x">> >>]>>

IsExample ==
    /\ artifact.kind = "json"
    /\ requested = {<<"a">>, <<"b">>, <<"c">>}
    /\ \E m \in {<<>>, << <<"x">> >>} : artifact.entries = ExampleEntries(m)

\* C20: reading a structured artifact puts every entry of status 0, 1, 2 in
\* Passed, Failed, Skipped respectively, with the key's prefix stripped and
\* the message kept; entries {a: 0, b: 1 with message x} against the requested
\* set {a, b, c} give Passed = {a}, Failed = {b with x}, Skipped = {},
\* Ignored = {c}
C20_JsonPlacement ==
    (artifact.kind = "json" /\ rpc \in {"report", "reported"}) =>
        /\ testLog.passed_tests = EntriesWithStatus(0)
        /\ testLog.failed_tests = EntriesWithStatus(1)
        /\ testLog.skipped_tests = EntriesWithStatus(2)
        /\ (IsExample /\ rpc = "reported") =>
              /\ {reported[i].id : i \in {j \in DOMAIN reported : reported[j].class = "Passed"}}
                    = {<<"a">>}
              /\ {<<reported[i].id, reported[i].message>> :
                     i \in {j \in DOMAIN reported : reported[j].class = "Failed"}}
                    = {<< <<"b">>, << <<"x">> >> >>}
              /\ {j \in DOMAIN reported : reported[j].class = "Skipped"} = {}
              /\ {reported[i].id : i \in {j \in DOMAIN reported : reported[j].class = "Ignored"}}
                    = {<<"c">>}
              /\ Len(reported) = 3

C20_Witness == IsExample /\ rpc = "reported" /\ Len(testLog.failed_tests) = 1

MaxDefines == 2

DefineNames == <<"D1", "D2", "D3">>
DmeNames == {<<>>, <<"p", "dme">>, <<"p", "test", "dme">>, <<"p">>}
FocusDefines == {<<>>, <<"F(", "$0", ")">>, <<"F">>, <<"$0", "+", "$0">>}
Orig == << <<"O1">>, <<"O2">> >>
Stale == << <<"stale">> >>
defaultFocusDefine == <<"TEST_FOCUS(", "$0", ")">>

\* removeExtension: split('.'), pop, join('.')
RemoveExtension(file) ==
    IF Len(file) <= 1 THEN <<"">> ELSE SubSeq(file, 1, Len(file) - 1)

\* getProjectName once getDMEName resolved
ProjectName == RemoveExtension(dmeName)

TestSuffix(v) == IF v = "controller" THEN "test" ELSE "mdme"

\* A generated descriptor that takes the name of the project's own
TestDMEPathOverOriginal(v, P) == P \o <<"dme">>

TestDMEPath(v, P) == P \o <<TestSuffix(v), "dme">>
OrigPath(P) == P \o <<"dme">>
FocusStem(part) ==
    CASE part = "p"    -> "p_unit_test_focus_file"
      [] part = "test" -> "test_unit_test_focus_file"
      [] OTHER         -> "_unit_test_focus_file"
FocusPath(P) == [P EXCEPT ![Len(P)] = FocusStem(@)] \o <<"dm">>
IncludeLine(P) == <<"#include">> \o FocusPath(P)

\* The paths cleanupTest hands to rmFile
CleanupPaths(v, P) ==
    {P \o <<TestSuffix(v), "dmb">>, P \o <<TestSuffix(v), "dme">>,
     P \o <<TestSuffix(v), "dyn", "rsc">>, P \o <<TestSuffix(v), "rsc">>}
    \cup (IF v = "controller" THEN {FocusPath(P)} ELSE {})

\* fsp.open(path, 'w') creates or truncates; write appends at the position
WriteFile(f, p, content) ==
    [q \in DOMAIN f \cup {p} |-> IF q = p THEN content ELSE f[q]]
AppendTo(f, p, lines) == IF p \in DOMAIN f THEN [f EXCEPT ![p] = @ \o lines] ELSE f
DeleteFiles(f, ps) == [q \in DOMAIN f \ ps |-> f[q]]

\* The test tree: the root item, one suite, its tests
Children(x) ==
    CASE x = "root" -> <<"S">>
      [] x = "S"    -> <<"a", "b">>
      [] OTHER      -> <<>>

RECURSIVE collectTestItems(_, _)
collectTestItems(top, exclude) ==
    IF top = <<>> THEN <<>>
    ELSE LET x == Head(top)
         IN  (IF x \in exclude THEN <<>>
              ELSE <<x>> \o collectTestItems(Children(x), exclude))
             \o collectTestItems(Tail(top), exclude)

\* runTests: request.include (all top-level items when undefined) without
\* request.exclude, then the children
TestsToRun(include, exclude) ==
    LET Kept(x) == x \notin exclude
    IN  collectTestItems(SelectSeq(include, Kept), exclude)

Includes == {<<"root">>, <<"S">>, <<"a">>, <<"b">>, <<"a", "b">>}
Excludes == {{}, {"a"}, {"b"}, {"S"}}
RunLists == {TestsToRun(i, e) : i \in Includes, e \in Excludes} \ {<<>>}

\* testData: only the items locateTestsInFile created carry a typepath
HasTypePath(item) == item \in {"a", "b"}
TypePath(item) == IF item = "a" THEN "/datum/unit_test/a" ELSE "/datum/unit_test/b"

\* A replace that leaves its subject as it is
ReplaceNothing(str, pat, by) == str

\* String.prototype.replace with a string pattern: the first occurrence
Replace(str, pat, by) ==
    LET hits == {i \in DOMAIN str : str[i] = pat}
    IN  IF hits = {} THEN str
        ELSE LET k == CHOOSE i \in hits : \A j \in hits : i <= j
             IN  SubSeq(str, 1, k - 1) \o <<by>> \o SubSeq(str, k + 1, Len(str))

\* getFocusDefine
FocusDefineThrows ==
    focusDefine # <<>> /\ \A i \in DOMAIN focusDefine : focusDefine[i] # "$0"
GetFocusDefine == IF focusDefine = <<>> THEN defaultFocusDefine ELSE focusDefine

artifactConfig == <<dmeName, defines, focusDefine, testsToRun>>

AStep(f, tch, infl, m, e, w) ==
    /\ fs' = f
    /\ touched' = tch
    /\ inflight' = infl
    /\ mpc' = m
    /\ mErr' = e
    /\ wi' = w
    /\ UNCHANGED artifactConfig
    /\ UNCHANGED pipelineVars
    /\ UNCHANGED reconcileVars
    /\ UNCHANGED unitVars

PcAfterDefines == IF variant = "controller" THEN "focus" ELSE "copy"
PcAfterOpen == IF defines # <<>> THEN "defines" ELSE PcAfterDefines

\* makeTestDME: await getProjectName(); getDMEName throws ConfigError when
\* the name is not set or no such file is found
GetProjectName ==
    /\ mpc = "config"
    /\ IF dmeName = <<>> \/ dmeName \notin DOMAIN fs
       THEN AStep(fs, touched, inflight, "failed", "ConfigError", wi)
       ELSE AStep(fs, touched, inflight, "open", "none", wi)

\* The three fsp.open calls: the new descriptor 'w', the original 'r' (which
\* rejects when <projectName>.dme does not exist), the focus file 'w'
OpenFiles ==
    /\ mpc = "open"
    /\ LET P == ProjectName
           new == TestDMEPath(variant, P)
           f1 == WriteFile(fs, new, <<>>)
           t1 == touched \cup {new}
       IN  IF OrigPath(P) \notin DOMAIN f1
           THEN AStep(f1, t1, inflight, "failed", "Error", wi)
           ELSE IF variant = "controller"
           THEN AStep(WriteFile(f1, FocusPath(P), <<>>), t1 \cup {FocusPath(P)},
                      inflight, PcAfterOpen, "none", 1)
           ELSE AStep(f1, t1, inflight, PcAfterOpen, "none", 1)

\* writeDefines: await fd.write(define + "\n") for each define
WriteDefine ==
    /\ mpc = "defines"
    /\ wi <= Len(defines)
    /\ LET new == TestDMEPath(variant, ProjectName)
           last == wi = Len(defines)
       IN  AStep(AppendTo(fs, new, << <<defines[wi]>> >>), touched \cup {new}, inflight,
                 IF last THEN PcAfterDefines ELSE "defines", "none",
                 IF last THEN 1 ELSE wi + 1)

\* writeFocusFileContents: getFocusDefine() is evaluated first
FocusStart ==
    /\ mpc = "focus"
    /\ IF FocusDefineThrows
       THEN AStep(fs, touched, inflight, "failed", "ConfigError", wi)
       ELSE AStep(fs, touched, inflight,
                  IF testsToRun = <<>> THEN "copy" ELSE "focusWrite", "none", 1)

\* writeFocusFileContents: one iteration of the loop over tests_to_run
WriteFocusItem ==
    /\ mpc = "focusWrite"
    /\ wi <= Len(testsToRun)
    /\ LET item == testsToRun[wi]
           focus == FocusPath(ProjectName)
           last == wi = Len(testsToRun)
           line == Replace(GetFocusDefine, "$0", TypePath(item))
       IN  AStep(IF HasTypePath(item) THEN AppendTo(fs, focus, <<line>>) ELSE fs,
                 IF HasTypePath(item) THEN touched \cup {focus} ELSE touched,
                 inflight, IF last THEN "copy" ELSE "focusWrite", "none",
                 IF last THEN 1 ELSE wi + 1)

\* fdOrig.readFile() resolved: the callback calls fdNew.write(buf) and
\* returns nothing, so the write is not awaited.  controller: the include
\* line is then written on the same handle and awaited.  adapter: the
\* handles are closed (not awaited) and the path is returned.
ReadOrig ==
    /\ mpc = "copy"
    /\ LET P == ProjectName
           copy == [what |-> "orig", lines |-> fs[OrigPath(P)]]
           incl == [what |-> "include", lines |-> <<IncludeLine(P)>>]
       IN  IF variant = "controller"
           THEN AStep(fs, touched, inflight \cup {copy, incl}, "include", "none", wi)
           ELSE AStep(fs, touched, inflight \cup {copy}, "returned", "none", wi)

\* One of the writes in flight on the handle completes: two writes issued
\* without waiting are performed in either order.  When it is the awaited
\* include line, makeTestDME returns.
WriteLands ==
    \E w \in inflight :
        LET new == TestDMEPath(variant, ProjectName)
        IN  AStep(AppendTo(fs, new, w.lines),
                  IF new \in DOMAIN fs THEN touched \cup {new} ELSE touched,
                  inflight \ {w},
                  IF w.what = "include" /\ mpc = "include" THEN "returned" ELSE mpc,
                  mErr, wi)

\* The compiler ran on the returned path: on success the .dmb and .rsc exist
CompilerWritesOutputs ==
    /\ mpc = "returned"
    /\ \E ok \in BOOLEAN :
          LET P == ProjectName
              dmb == P \o <<TestSuffix(variant), "dmb">>
              rsc == P \o <<TestSuffix(variant), "rsc">>
          IN  IF ok
              THEN AStep(WriteFile(WriteFile(fs, dmb, <<>>), rsc, <<>>),
                         touched \cup {dmb, rsc}, inflight, "compiled", "none", wi)
              ELSE AStep(fs, touched, inflight, "compileFailed", "none", wi)

\* cleanupTest: at the end of a successful run, and in the controller also
\* when the compile failed
CleanupArtifacts ==
    /\ \/ mpc = "compiled"
       \/ mpc = "compileFailed" /\ variant = "controller"
    /\ LET gone == CleanupPaths(variant, ProjectName) \cap DOMAIN fs
       IN  AStep(DeleteFiles(fs, gone), touched \cup gone, inflight, "cleaned", mErr, wi)

InitialFiles(name, v, origExists, stale) ==
    LET dom == (IF origExists /\ name # <<>> THEN {name} ELSE {})
               \cup (IF stale /\ name # <<>>
                     THEN {TestDMEPath(v, RemoveExtension(name))} ELSE {})
    IN  [q \in dom |-> IF q = name THEN Orig ELSE Stale]

InitArtifacts ==
    /\ variant \in Variants
    /\ resultsType = "log"
    /\ foreignProc = "none"
    /\ logDir = TRUE
    /\ PipelineIdle
    /\ resultsFile = "absent"
    /\ requested = {}
    /\ artifact = NoArtifact
    /\ testLog = EmptyLog
    /\ readErr = "none"
    /\ reported = <<>>
    /\ errorShown = FALSE
    /\ rpc = "off"
    /\ testStates = <<>>
    /\ dmeName \in DmeNames
    /\ defines \in {SubSeq(DefineNames, 1, n) : n \in 0..MaxDefines}
    /\ IF variant = "controller"
       THEN focusDefine \in FocusDefines /\ testsToRun \in RunLists
       ELSE focusDefine = <<>> /\ testsToRun = <<>>
    /\ \E origExists \in BOOLEAN, stale \in BOOLEAN :
          fs = InitialFiles(dmeName, variant, origExists, stale)
    /\ touched = {}
    /\ inflight = {}
    /\ mpc = "config"
    /\ mErr = "none"
    /\ wi = 0
    /\ UnitsIdle

NextArtifacts ==
    \/ GetProjectName
    \/ OpenFiles
    \/ WriteDefine
    \/ FocusStart
    \/ WriteFocusItem
    \/ ReadOrig
    \/ WriteLands
    \/ CompilerWritesOutputs
    \/ CleanupArtifacts

SpecArtifacts == InitArtifacts /\ [][NextArtifacts]_vars

NewDescriptor == TestDMEPath(variant, ProjectName)

\* C14: when the focus-line template lacks the placeholder, artifact writing
\* fails with ConfigError and the run has created or truncated no file
C14_BadTemplateWritesNothing ==
    (FocusDefineThrows /\ variant = "controller" /\ mpc = "failed"
        /\ dmeName \in DOMAIN fs /\ OrigPath(ProjectName) \in DOMAIN fs) =>
        (mErr = "ConfigError" /\ touched = {})

\* C15: when makeTestDME returns every write to the patched descriptor has
\* completed and its content is the define lines, then the whole original
\* descriptor, then the include directive of the focus file
C15_DescriptorCompleteOnReturn ==
    mpc = "returned" =>
        /\ inflight = {}
        /\ fs[NewDescriptor] =
              [i \in DOMAIN defines |-> <<defines[i]>>] \o Orig
                  \o <<IncludeLine(ProjectName)>>

SinglePlaceholder(tpl) == Cardinality({i \in DOMAIN tpl : tpl[i] = "$0"}) = 1

ExpectedFocusLine(item) ==
    LET tpl == IF focusDefine = <<>> THEN <<"TEST_FOCUS(", "$0", ")">> ELSE focusDefine
    IN  [i \in DOMAIN tpl |->
            IF tpl[i] = "$0" THEN (IF item = "a" THEN "/datum/unit_test/a"
                                              ELSE "/datum/unit_test/b")
            ELSE tpl[i]]

ExpectedFocusFile ==
    LET IsTest(x) == x \in {"a", "b"}
        tests == SelectSeq(testsToRun, IsTest)
    IN  [i \in DOMAIN tests |-> ExpectedFocusLine(tests[i])]

C17_OriginalUntouched ==
    /\ dmeName \notin touched
    /\ dmeName \in DOMAIN fs => fs[dmeName] = Orig
    /\ mpc \notin {"off", "config", "failed"} => dmeName \in DOMAIN fs

C17_Witness ==
    /\ mpc = "cleaned"
    /\ dmeName \in DOMAIN fs
    /\ NewDescriptor \in touched
    /\ NewDescriptor \notin DOMAIN fs

(***************************************************************************)
(* Claims about the line-log reader                                        *)
(***************************************************************************)
\* The lines of a text on which the pattern KW: /datum/unit_test/<id> matches
MatchingLines(lines, kw) == {n \in DOMAIN lines : RegExec(lines[n], kw, 0).found}

\* The lines after line n up to, not including, the next line that begins
\* with "[" (or up to the end of the text), each without its leading " - \t"
RECURSIVE ReasonsAfter(_, _)
ReasonsAfter(lines, n) ==
    IF n + 1 > Len(lines) \/ StartsWithBracket(lines[n + 1]) THEN <<>>
    ELSE <<StripLead(lines[n + 1])>> \o ReasonsAfter(lines, n + 1)

LogWasRead == resultsType = "log" /\ artifact.kind = "log" /\ rpc # "read"

\* C21: reading a line-log artifact yields one Passed result for every PASS
\* match and one Failed result for every line that matches the FAIL pattern,
\* also for a FAIL line that directly follows another FAIL entry.
C21_EveryFailLineReported ==
    (LogWasRead /\ readErr = "none") =>
        /\ Len(testLog.failed_tests) = Cardinality(MatchingLines(artifact.lines, "FAIL"))
        /\ Len(testLog.passed_tests) = Cardinality(MatchingLines(artifact.lines, "PASS"))

\* C22: reading a line-log artifact returns a result, also when no later
\* line begins with "[", and every Failed result carries as its message the
\* lines that follow its FAIL line up to the next line beginning with "[",
\* each without its leading " - \t".
C22_ReasonsToEndOfText ==
    LogWasRead =>
        /\ readErr = "none"
        /\ \A i \in DOMAIN testLog.failed_tests :
              \E n \in MatchingLines(artifact.lines, "FAIL") :
                  /\ testLog.failed_tests[i].id = RegExec(artifact.lines[n], "FAIL", 0).id
                  /\ testLog.failed_tests[i].message = ReasonsAfter(artifact.lines, n)

(***************************************************************************)
(* runProcess (utils.ts): one call, its child process and the cancel       *)
(* emitter it was handed.  The child writes chunks to its two pipes; a     *)
(* chunk reaches the 'data' listener later, and the 'exit' event is not    *)
(* ordered with the 'data' events of chunks still in the pipes (node emits *)
(* 'exit' when the child ended, while its stdio streams may be open).      *)
(***************************************************************************)
MaxChunks == 2
MaxFires == 2

Streams == {"out", "err"}

ProcessStep(p, so, pi, em, cl, pr, va, sp, fi, pk, un) ==
    /\ process' = p
    /\ stdout' = so
    /\ pipe' = pi
    /\ emitted' = em
    /\ cancelListener' = cl
    /\ promise' = pr
    /\ value' = va
    /\ spawns' = sp
    /\ fires' = fi
    /\ procKills' = pk
    /\ uncaught' = un
    /\ UNCHANGED pipelineVars
    /\ UNCHANGED reconcileVars
    /\ UNCHANGED artifactVars
    /\ UNCHANGED signalVars
    /\ UNCHANGED discoveryVars
    /\ UNCHANGED parallelVars

\* The synchronous body of the promise executor: spawn, attach the cancel
\* listener and the stream listeners.  A command that cannot be started still
\* yields a ChildProcess object, which emits 'error' later
RunProcess ==
    /\ promise = "none"
    /\ \E started \in BOOLEAN :
          ProcessStep(IF started THEN "running" ELSE "failing", stdout, pipe,
                      emitted, TRUE, "pending", value, spawns + 1, fires,
                      procKills, uncaught)

\* The 'error' event of a child that could not be spawned: runProcess
\* registers no 'error' listener, and no 'exit' event follows
OnSpawnError ==
    /\ process = "failing"
    /\ ProcessStep("failed", stdout, pipe, emitted, cancelListener, promise,
                   value, spawns, fires, procKills, TRUE)

\* The child writes a chunk to its standard output or standard error
ChildWrites ==
    /\ process = "running"
    /\ Len(emitted) < MaxChunks
    /\ \E s \in Streams :
          LET chunk == <<s, Len(emitted) + 1>>
          IN  ProcessStep(process, stdout, [pipe EXCEPT ![s] = Append(@, chunk)],
                          Append(emitted, chunk), cancelListener, promise, value,
                          spawns, fires, procKills, uncaught)

\* process.stdout.on('data') / process.stderr.on('data'): stdout += data
OnData ==
    \E s \in Streams :
        /\ pipe[s] # <<>>
        /\ ProcessStep(process, Append(stdout, Head(pipe[s])),
                       [pipe EXCEPT ![s] = Tail(@)], emitted, cancelListener,
                       promise, value, spawns, fires, procKills, uncaught)

\* process.once('exit'): cancelListener.dispose(); resolve(stdout)
OnExit ==
    /\ process = "running"
    /\ ProcessStep("exited", stdout, pipe, emitted, FALSE,
                   IF promise = "pending" THEN "resolved" ELSE promise,
                   IF promise = "pending" THEN stdout ELSE value,
                   spawns, fires, procKills, uncaught)

\* cancelEmitter.fire(): the listener of runProcess, if attached, calls
\* process.kill() and reject(new CancelError()); it does not dispose itself
FireCancelEmitter ==
    /\ fires < MaxFires
    /\ IF cancelListener
       THEN ProcessStep(process, stdout, pipe, emitted, cancelListener,
                        IF promise = "pending" THEN "rejected" ELSE promise,
                        value, spawns, fires + 1, procKills + 1, uncaught)
       ELSE ProcessStep(process, stdout, pipe, emitted, cancelListener, promise,
                        value, spawns, fires + 1, procKills, uncaught)

\* Before the call of runProcess
InitProcess ==
    /\ variant = "controller"
    /\ resultsType = "json"
    /\ foreignProc = "none"
    /\ logDir = TRUE
    /\ PipelineIdle
    /\ resultsFile = "absent"
    /\ requested = {}
    /\ artifact = NoArtifact
    /\ testLog = EmptyLog
    /\ readErr = "none"
    /\ reported = <<>>
    /\ errorShown = FALSE
    /\ rpc = "off"
    /\ testStates = <<>>
    /\ ArtifactsIdle
    /\ UnitsIdle

NextProcess ==
    \/ RunProcess
    \/ OnSpawnError
    \/ ChildWrites
    \/ OnData
    \/ OnExit
    \/ FireCancelEmitter

SpecProcess == InitProcess /\ [][NextProcess]_vars

\* The event loop delivers the events that are due, and a child that was
\* started ends; nothing obliges anybody to fire the cancel emitter
FairSpecProcess ==
    /\ SpecProcess
    /\ WF_vars(RunProcess)
    /\ WF_vars(OnSpawnError)
    /\ WF_vars(OnData)
    /\ WF_vars(OnExit)

Settled == promise \in {"resolved", "rejected"}

\* C23: runProcess resolves with the concatenation, in arrival order, of
\* every chunk the child emitted on either stream; no chunk is missing from
\* the resolved value, also when it is delivered after the 'exit' event.
C23_ResolvedWithEveryChunk ==
    promise = "resolved" =>
        /\ \A i \in DOMAIN emitted : \E j \in DOMAIN value : value[j] = emitted[i]
        /\ value = SubSeq(stdout, 1, Len(value))

\* C24: once a runProcess call has settled, by exit or by cancellation, its
\* listener is no longer attached to the cancel emitter, and a later firing
\* of the emitter kills nothing.
C24_ListenerDetachedOnceSettled ==
    /\ [](Settled => ~cancelListener)
    /\ [][Settled => procKills' = procKills]_vars

\* C25: a runProcess call always settles, also when the command cannot be
\* spawned, and the command is spawned exactly once.
C25_AlwaysSettles ==
    /\ <>Settled
    /\ [](promise # "none" => spawns = 1)

(***************************************************************************)
(* The cancellation signal over several runs.  Three orchestrators hand a  *)
(* cancel emitter to the stages: the first DMAdapter ("legacy": one        *)
(* readonly emitter for the life of the adapter, cancel() fires it         *)
(* unconditionally), the later DMAdapter ("adapter": guarded cancel(), the *)
(* emitter is disposed and replaced when a run ends) and the test          *)
(* controller ("controller": a local emitter per run, fired by the run's   *)
(* cancellation token).  A stage registers a listener on the emitter it    *)
(* was handed; runProcess disposes its listener on 'exit', the daemon      *)
(* stage never disposes its listener.                                      *)
(***************************************************************************)
MaxRuns == 2
MaxCancels == 3
MaxRunCalls == 3

Orchestrators == {"legacy", "adapter", "controller"}
ListenerKinds == {"runProcess", "daemon"}

SignalStepCalls(r, c, n, g, a, l, o, rc) ==
    /\ runCalls' = rc
    /\ running' = r
    /\ canceling' = c
    /\ runs' = n
    /\ emitterGen' = g
    /\ attached' = a
    /\ cancelLog' = l
    /\ observed' = o
    /\ UNCHANGED pipelineVars
    /\ UNCHANGED reconcileVars
    /\ UNCHANGED artifactVars
    /\ UNCHANGED processVars
    /\ UNCHANGED discoveryVars
    /\ UNCHANGED parallelVars

SignalStep(r, c, n, g, a, l, o) == SignalStepCalls(r, c, n, g, a, l, o, runCalls)

\* A run() that lacks the isRunning guard
RunAcceptedAlways == TRUE

\* if (this.isRunning) { return; }
RunAccepted == ~running

\* run() up to the call of the stages: it returns at once while a run is in
\* progress; the controller creates the emitter of the run (the controller's
\* handler is taken to be called for one request at a time)
StartRun ==
    /\ runCalls < MaxRunCalls
    /\ variant = "controller" => ~running
    /\ RunAccepted => runs < MaxRuns
    /\ IF RunAccepted
       THEN SignalStepCalls(TRUE, canceling, runs + 1,
                            IF variant = "controller" THEN emitterGen + 1 ELSE emitterGen,
                            attached, cancelLog, observed, runCalls + 1)
       ELSE SignalStepCalls(running, canceling, runs, emitterGen, attached,
                            cancelLog, observed, runCalls + 1)

\* A stage of the run in progress calls cancelEmitter.event(listener)
StageListens ==
    /\ running
    /\ \E k \in ListenerKinds :
          LET l == [run |-> runs, gen |-> emitterGen, kind |-> k]
          IN  /\ l \notin attached
              /\ SignalStep(running, canceling, runs, emitterGen,
                            attached \cup {l}, cancelLog, observed)

\* The 'exit' handler of runProcess disposes the listener of its call
StageDisposes ==
    /\ running
    /\ \E l \in attached :
          /\ l.kind = "runProcess"
          /\ l.run = runs
          /\ SignalStep(running, canceling, runs, emitterGen,
                        attached \ {l}, cancelLog, observed)

\* A cancel() that fires whenever it is called
FiresUnguarded(v) == TRUE

\* Whether a cancel() call reaches cancelEmitter.fire()
Fires(v) == IF v = "legacy" THEN TRUE ELSE running /\ ~canceling

\* cancel(): the listeners attached to the current emitter run, in the run
\* in progress (0: none).  The controller's token exists only while its run
\* is in progress and fires its own listeners once
CancelCall ==
    /\ Len(cancelLog) < MaxCancels
    /\ variant = "controller" => running
    /\ LET now == IF running THEN runs ELSE 0
           fire == Fires(variant)
       IN  SignalStep(running,
                      IF fire /\ variant # "legacy" THEN TRUE ELSE canceling,
                      runs, emitterGen, attached,
                      Append(cancelLog, [run |-> now, fired |-> fire]),
                      IF fire
                      THEN observed \cup {[listenerRun |-> l.run, atRun |-> now] :
                                             l \in {x \in attached : x.gen = emitterGen}}
                      ELSE observed)

\* The tail of run(): the later DMAdapter disposes the emitter (which drops
\* its listeners) and creates a new one; the first DMAdapter only clears
\* isRunning; the controller's local emitter goes out of scope
EndRun ==
    /\ running
    /\ CASE variant = "adapter" ->
                SignalStep(FALSE, FALSE, runs, emitterGen + 1,
                           {l \in attached : l.gen # emitterGen}, cancelLog, observed)
         [] variant = "legacy" ->
                SignalStep(FALSE, canceling, runs, emitterGen, attached,
                           cancelLog, observed)
         [] OTHER ->
                SignalStep(FALSE, FALSE, runs, emitterGen, attached,
                           cancelLog, observed)

InitSignal ==
    /\ variant \in Orchestrators
    /\ resultsType = "json"
    /\ foreignProc = "none"
    /\ logDir = TRUE
    /\ PipelineIdle
    /\ resultsFile = "absent"
    /\ requested = {}
    /\ artifact = NoArtifact
    /\ testLog = EmptyLog
    /\ readErr = "none"
    /\ reported = <<>>
    /\ errorShown = FALSE
    /\ rpc = "off"
    /\ testStates = <<>>
    /\ ArtifactsIdle
    /\ UnitsIdle

NextSignal ==
    \/ StartRun
    \/ StageListens
    \/ StageDisposes
    \/ CancelCall
    \/ EndRun

SpecSignal == InitSignal /\ [][NextSignal]_vars

\* C26: each run uses its own cancellation signal: a listener registered
\* during an earlier run never runs during a later run, so a cancellation
\* raised in one run is never observed through the stages of another.
C26_FreshSignalPerRun ==
    \A o \in observed : ~(o.atRun > o.listenerRun)

FiresInRun(r) == {i \in DOMAIN cancelLog : cancelLog[i].run = r /\ cancelLog[i].fired}
CallsInRun(r) == {i \in DOMAIN cancelLog : cancelLog[i].run = r}

\* C27: in DMAdapter.cancel (and for the controller's token) the signal is
\* fired at most once within one run however many times cancel() is called,
\* and a cancel() with no run in progress fires nothing and changes no state.
C27_CancelFiresOncePerRun ==
    /\ [](variant # "legacy" =>
            /\ \A r \in 1..runs : Cardinality(FiresInRun(r)) <= 1
            /\ FiresInRun(0) = {})
    /\ [][(variant # "legacy" /\ ~running /\ cancelLog' # cancelLog) =>
            UNCHANGED <<running, canceling, runs, emitterGen, attached, observed>>]_vars

C27_Witness ==
    /\ variant = "adapter"
    /\ \E r \in 1..runs : Cardinality(CallsInRun(r)) >= 2 /\ Cardinality(FiresInRun(r)) = 1
    /\ CallsInRun(0) # {}
    /\ observed # {}

(***************************************************************************)
(* Test discovery (loadTests).  A line of a *.dm file is a sequence of     *)
(* tokens: "TEST" is the literal "/datum/unit_test/", a token of DmIds is  *)
(* a type name, "(" is the rest of a proc header, "tab" is a leading tab,  *)
(* "template" "=" the start of a var assignment and "x" any other text.    *)
(* The Unit Test Definition Regex is one that matches TEST followed by the *)
(* captured name, as the README asks; getUnitTestsDef always gives it the  *)
(* flags gm, and one RegExp object serves every line of every file.        *)
(***************************************************************************)
MaxDmLines == 2
MaxDmFiles == 2

DmIds == {"a", "b", "proc"}
DmLines == {<<"TEST", "a">>, <<"TEST", "b">>, <<"TEST", "a", "(">>,
            <<"TEST", "proc", "(">>, <<"tab", "template", "=", "TEST", "a">>,
            <<"tab", "x">>}
DmTexts == UNION {[1..n -> DmLines] : n \in 1..MaxDmLines}

\* lineRegexp.exec(line) for a regex with the g flag: the search starts at
\* from, and the result carries the lastIndex the regex is left with
DefExec(line, from) ==
    LET starts == {i \in 1..Len(line) - 1 :
                      i > from /\ line[i] = "TEST" /\ line[i + 1] \in DmIds}
    IN  IF starts = {}
        THEN [found |-> FALSE, id |-> "", lastIndex |-> 0]
        ELSE LET i == CHOOSE x \in starts : \A y \in starts : x <= y
             IN  [found |-> TRUE, id |-> line[i + 1], lastIndex |-> i + 1]

lineIsDatumDefinition(line) == Len(line) = 2 /\ line[1] = "TEST" /\ line[2] \in DmIds

isLevel1Block(line) == Len(line) >= 1 /\ line[1] = "tab"

\* getDMBlock: the level-1 lines that follow line n without interruption
RECURSIVE getDMBlock(_, _)
getDMBlock(lines, n) ==
    IF n > Len(lines) \/ ~isLevel1Block(lines[n]) THEN <<>>
    ELSE <<lines[n]>> \o getDMBlock(lines, n + 1)

\* The datum defined on line n assigns its own type path to template
testHasTemplate(lines, n) ==
    /\ n < Len(lines)
    /\ LET block == getDMBlock(lines, n + 1)
           assigns == {k \in DOMAIN block :
                          Len(block[k]) >= 4 /\ block[k][2] = "template" /\ block[k][3] = "="}
       IN  /\ assigns # {}
           /\ LET k == CHOOSE x \in assigns : \A y \in assigns : y <= x
              IN  SubSeq(block[k], 4, Len(block[k])) = lines[n]

\* locateLineInFile then locateTestsInFile: the names found in the lines
\* from n on, and the lastIndex the shared regex is left with
RECURSIVE locateTestsInFile(_, _, _, _)
locateTestsInFile(lines, n, from, acc) ==
    IF n > Len(lines) THEN [tests |-> acc, lastIndex |-> from]
    ELSE LET m == DefExec(lines[n], from)
             keep == /\ m.found
                     /\ variant = "controller" =>
                           ~(lineIsDatumDefinition(lines[n]) /\ testHasTemplate(lines, n))
                     /\ m.id # "proc"
         IN  locateTestsInFile(lines, n + 1, m.lastIndex,
                               IF keep THEN Append(acc, m.id) ELSE acc)

DiscoveryStep(sc, li, su, lo) ==
    /\ scanned' = sc
    /\ defLastIndex' = li
    /\ suites' = su
    /\ loaded' = lo
    /\ UNCHANGED dmFiles
    /\ UNCHANGED pipelineVars
    /\ UNCHANGED reconcileVars
    /\ UNCHANGED artifactVars
    /\ UNCHANGED processVars
    /\ UNCHANGED signalVars
    /\ UNCHANGED parallelVars

\* The processor of one uri: the files are gone through in any order, and
\* the loop over the lines of a file is not interrupted by another file
ScanFile ==
    /\ ~loaded
    /\ \E f \in DOMAIN dmFiles \ scanned :
          LET r == locateTestsInFile(dmFiles[f], 1, defLastIndex, <<>>)
          IN  DiscoveryStep(scanned \cup {f}, r.lastIndex,
                            [suites EXCEPT ![f] = r.tests], FALSE)

\* loadTests returns once every file was processed
LoadTestsReturns ==
    /\ ~loaded
    /\ scanned = DOMAIN dmFiles
    /\ DiscoveryStep(scanned, defLastIndex, suites, TRUE)

InitDiscovery ==
    /\ variant \in Variants
    /\ resultsType = "json"
    /\ foreignProc = "none"
    /\ logDir = TRUE
    /\ PipelineIdle
    /\ resultsFile = "absent"
    /\ requested = {}
    /\ artifact = NoArtifact
    /\ testLog = EmptyLog
    /\ readErr = "none"
    /\ reported = <<>>
    /\ errorShown = FALSE
    /\ rpc = "off"
    /\ testStates = <<>>
    /\ ArtifactsIdle
    /\ ProcessIdle
    /\ SignalIdle
    /\ ParallelIdle
    /\ dmFiles \in UNION {[1..n -> DmTexts] : n \in 1..MaxDmFiles}
    /\ scanned = {}
    /\ defLastIndex = 0
    /\ suites = [f \in DOMAIN dmFiles |-> <<>>]
    /\ loaded = FALSE

NextDiscovery ==
    \/ ScanFile
    \/ LoadTestsReturns

SpecDiscovery == InitDiscovery /\ [][NextDiscovery]_vars

\* The names of the lines of a text that match the definition regex, leaving
\* out the name proc and, for the controller, the templated datum definitions
RECURSIVE MatchingTests(_, _)
MatchingTests(lines, n) ==
    IF n > Len(lines) THEN <<>>
    ELSE LET m == DefExec(lines[n], 0)
         IN  (IF /\ m.found
                 /\ m.id # "proc"
                 /\ ~(variant = "controller" /\ lineIsDatumDefinition(lines[n])
                         /\ testHasTemplate(lines, n))
              THEN <<m.id>> ELSE <<>>) \o MatchingTests(lines, n + 1)

\* C28: discovery reports one test for every line that matches the unit test
\* definition regex (other than the name proc and templated datums), whatever
\* was matched on lines or in files scanned before: two matching lines in a
\* row both produce a test.
C28_EveryMatchingLineIsATest ==
    loaded => \A f \in DOMAIN dmFiles : suites[f] = MatchingTests(dmFiles[f], 1)

(***************************************************************************)
(* Claims about the order of the stages                                    *)
(***************************************************************************)
\* The stage an await of the pipeline belongs to: 1 pre-build commands,
\* 2 artifact writing, 3 compile, 4 daemon run, 5 result reading, 6 cleanup;
\* 7 is the cleanupTest a failing stage awaits before it throws, 8 the end
StageOf(p) ==
    CASE p = "idle" -> 0
      [] p = "prebuild" -> 1
      [] p = "makeDME" -> 2
      [] p \in {"compilePrep", "compiling", "compilePost"} -> 3
      [] p \in {"dmbPrep", "watchDir", "watchFile"} -> 4
      [] p = "readResults" -> 5
      [] p = "cleanup" -> 6
      [] p = "failCleanup" -> 7
      [] OTHER -> 8

\* C29: the stages start in the order pre-build commands, artifact writing,
\* compile, daemon run, result reading, cleanup; a stage starts only when the
\* stage before it has resolved, and after a failure no further stage starts.
C29_StagesInOrder ==
    /\ [][pc' # pc =>
            /\ StageOf(pc') > StageOf(pc) \/ (StageOf(pc') = StageOf(pc) /\ StageOf(pc) \in {3, 4})
            /\ \/ StageOf(pc') <= StageOf(pc) + 1
               \/ pc = "idle" /\ pc' = "makeDME"
               \/ pc' \in {"failCleanup", "done"}]_vars
    /\ [](StageOf(pc) \in 2..6 => prebuildProc # "running")
    /\ [](StageOf(pc) \in 3..6 => "dme" \in files)
    /\ [](StageOf(pc) \in 4..6 => compilerProc = "exitedOk" /\ "runProcess" \notin listeners)
    /\ [](StageOf(pc) \in 5..6 => ddStarted /\ ~ddIsRunning /\ watcher = "closed")
    /\ [](cleanupStarted => pc = "done")
    /\ [](result \notin {"none", "ok"} => pc = "done")

C29_Witness ==
    /\ variant = "controller"
    /\ prebuildProc = "exited"
    /\ pc = "done"
    /\ result = "ok"
    /\ cleanupStarted

(***************************************************************************)
(* Claims about the two phases of the daemon watch                         *)
(***************************************************************************)
\* NotStarted, WatchingDirectory, WatchingFile, Finished
WatchPhase(w) ==
    CASE w = "none" -> 0
      [] w = "dir" -> 1
      [] w = "file" -> 2
      [] OTHER -> 3

\* C30: the daemon watch only moves forward through NotStarted,
\* WatchingDirectory, WatchingFile, Finished; the file watch is set up only
\* when the directory watch has observed the expected file name, the two
\* watches are never open together, and no content event is handled before
\* the file was observed.
C30_WatchPhasesForward ==
    /\ [][WatchPhase(watcher') >= WatchPhase(watcher)]_vars
    /\ [][(watcher' = "file" /\ watcher # "file") =>
            /\ watcher = "dir"
            /\ evDir # <<>>
            /\ Head(evDir) = "game.log"
            /\ evDir' = <<>>]_vars
    /\ [][(watcher' = "dir" /\ watcher # "dir") => watcher = "none"]_vars
    /\ [][reads' > reads => watcher = "file" /\ evFile > 0]_vars
    /\ [](watcher = "file" => evDir = <<>> /\ logFile # "absent")
    /\ [](watcher \in {"none", "dir"} => evFile = 0 /\ reads = 0)

C30_Witness ==
    /\ watcher = "file"
    /\ pc = "watchFile"
    /\ reads > 0
    /\ otherLogs > 0

(***************************************************************************)
(* Claims about the completion and teardown of the daemon stage            *)
(***************************************************************************)
\* C31: the daemon stage resolves normally only in the handling of a read of
\* the log file whose content has the termination marker, with the file
\* watch open and the daemon object not disposed by a cancellation; never on
\* a directory event, on content without the marker or after the stage
\* observed the cancellation.
C31_ResolvesOnlyOnMarker ==
    /\ [][(pc' = "readResults" /\ pc # "readResults") =>
            /\ pc = "watchFile"
            /\ watcher = "file"
            /\ reads > 0
            /\ reads' = reads - 1
            /\ CheckDone(logFile)
            /\ logFile = "marker"
            /\ ~ddIsDisposed
            /\ disposeCalls = 0]_vars
    /\ [](pc = "readResults" => logFile = "marker" /\ ~ddIsRunning)

C31_Witness ==
    /\ pc = "readResults"
    /\ writes > 0
    /\ otherLogs > 0
    /\ ~ddIsDisposed

\* runDreamDaemonProcess was called and has returned or thrown
DaemonStageSettled == ddStarted /\ pc \notin {"watchDir", "watchFile"}

\* C32: whenever the daemon stage has settled (completion, cancellation,
\* watch error or failed content read) no watcher it opened is still open
\* and no listener it registered is still attached, neither to the daemon's
\* internal emitter nor to the cancel emitter of the run.
C32_NothingLeftAfterDaemonStage ==
    DaemonStageSettled =>
        /\ watcher \notin {"dir", "file"}
        /\ ~watchListener
        /\ "daemon" \notin listeners

\* C33: at most one pipeline is in progress per adapter: a pipeline starts
\* only from a run() call made while no run is in progress, and a run()
\* called during a run returns without starting a pipeline and without any
\* effect on the run in progress.
C33_OneRunAtATime ==
    /\ [][runs' # runs => ~running /\ running' /\ runs' = runs + 1
                          /\ runCalls' = runCalls + 1]_vars
    /\ [][(runCalls' # runCalls /\ running) =>
            UNCHANGED <<running, canceling, runs, emitterGen, attached,
                        cancelLog, observed>>]_vars
    /\ [](runs <= runCalls)

C33_Witness ==
    /\ variant = "adapter"
    /\ running
    /\ runs = 1
    /\ runCalls = 3
    /\ attached # {}

\* ---------------------------------------------------------------------
\* The order of the events of one adapter run

IsFinal(e) == e.type = "test" /\ e.state # "running"

CompletedAt(s) ==
    {i \in DOMAIN testStates :
        /\ testStates[i].type = "suite"
        /\ testStates[i].id = s
        /\ testStates[i].state = "completed"}

RunningSuites ==
    {testStates[i].id : i \in {j \in DOMAIN testStates :
        testStates[j].type = "suite" /\ testStates[j].state = "running"}}

\* C34: in an adapter run 'started' is the first event and 'finished' can
\* only be the last one, a suite's 'running' event precedes its 'completed'
\* event, a test's 'running' event precedes every final state of that test,
\* and once runAllTests has returned (after the report, an error or a
\* cancellation) every suite marked 'running' was marked 'completed'
\* exactly once
C34_EventsInOrder ==
    variant = "adapter" /\ rpc # "off" =>
        /\ testStates # <<>>
        /\ \A i \in DOMAIN testStates :
            /\ (testStates[i].type = "started") <=> (i = 1)
            /\ testStates[i].type = "finished" => i = Len(testStates)
            /\ testStates[i].type = "suite" /\ testStates[i].state = "completed" =>
                \E j \in 1..(i - 1) :
                    /\ testStates[j].type = "suite"
                    /\ testStates[j].id = testStates[i].id
                    /\ testStates[j].state = "running"
            /\ IsFinal(testStates[i]) =>
                \A j \in DOMAIN testStates :
                    /\ testStates[j].type = "test"
                    /\ testStates[j].id = testStates[i].id
                    /\ testStates[j].state = "running"
                    => j < i
        /\ \A s \in RunningSuites : Cardinality(CompletedAt(s)) <= 1
        /\ rpc \in {"reported", "caught"} =>
            \A s \in RunningSuites : Cardinality(CompletedAt(s)) = 1
        /\ testStates[Len(testStates)].type = "finished" =>
            rpc \in {"reported", "caught"}

\* A run of two suites whose results were read and reported, one test
\* failed, and 'finished' was fired
C34_Witness ==
    /\ variant = "adapter"
    /\ rpc = "reported"
    /\ Cardinality(RunningSuites) = 2
    /\ testStates[Len(testStates)].type = "finished"
    /\ \E i \in DOMAIN testStates : testStates[i].type = "test" /\ testStates[i].state = "failed"

\* C35: every run the adapter accepted eventually ends, whenever cancel()
\* is called during it: isRunning and isCanceling are false again, and the
\* adapter never has isRunning set after the pipeline has returned
C35_AcceptedRunEnds ==
    /\ (variant = "adapter" /\ isRunning) ~> (~isRunning /\ ~isCanceling)
    /\ [](variant = "adapter" /\ pc = "done" => ~isRunning)

\* C36: when a run has reported its outcome, every deletion started by its
\* cleanup has completed, so none can hit a file of a later run
C36_CleanupDoneWhenRunReports ==
    (pc = "done" /\ cleanupStarted) => pendingRm = {}

\* C37: the results artifact read after the daemon stage was written during
\* the current run: for both formats an artifact left by an earlier run is
\* gone once the daemon was launched, a run that reports success read an
\* artifact written by its own daemon, and a read that finds no artifact
\* ends the run with the ConfigError
C37_ResultsAreOfThisRun ==
    /\ [](ddStarted => resultsFile # "stale")
    /\ [](result = "ok" => resultsFile = "fresh")
    /\ [][(pc = "readResults" /\ pc' # "readResults" /\ resultsFile \in {"absent", "removed"})
            => result' = "ConfigError"]_vars

\* An earlier run left a structured results file, the daemon of this run
\* wrote none, and the run ended with the ConfigError
C37_Witness ==
    /\ resultsType = "json"
    /\ ddStarted
    /\ resultsFile = "removed"
    /\ pc = "done"
    /\ result = "ConfigError"
    /\ cancelSnap = NoCancel

\* C38: cancelling a run never terminates a process that does not carry
\* exactly this run's token: another run's daemon whose token contains this
\* run's token is never killed, and its presence never keeps this run's own
\* daemon from being killed
C38_OnlyOwnDaemonKilled ==
    cancelSnap.at \in {"watchDir", "watchFile"} =>
        /\ foreignProc # "killed"
        /\ ~multiFault

(***************************************************************************)
(* parallel(concurrent, collection, processor), as loadTests calls it with *)
(* the files of the workspace.  One action is one task of the event loop:  *)
(* the call with the loop up to its first await, the settling of one       *)
(* processor promise, the then-callback of one promise p, and the          *)
(* resumption of parallel after Promise.race or Promise.all.  The          *)
(* processors settle in any order, each fulfilled or rejected.             *)
(***************************************************************************)
MaxItems == 4
MaxConcurrent == 3

ParallelStep(pp, q, w, inv, ivd, so, ts) ==
    /\ ppc' = pp
    /\ queue' = q
    /\ waitingOn' = w
    /\ invocation' = inv
    /\ invoked' = ivd
    /\ settleOrder' = so
    /\ testSuites' = ts
    /\ UNCHANGED <<concurrent, collection>>
    /\ UNCHANGED pipelineVars
    /\ UNCHANGED reconcileVars
    /\ UNCHANGED artifactVars
    /\ UNCHANGED processVars
    /\ UNCHANGED signalVars
    /\ UNCHANGED discoveryVars

Elements(q) == {q[k] : k \in DOMAIN q}

\* A loop that never waits for a free slot
NeverWait(q, limit) == FALSE

\* if (queue.length >= concurrent)
MustWait(q, limit) == Len(q) >= limit

\* A final wait that waits for nothing
RestOfNothing(q) == {}

\* await Promise.all(queue): the promises in the queue at that moment
RestOfCalls(q) == Elements(q)

\* for (const fn of collection) from item n on, up to the first await: each
\* item's processor is called and its promise p pushed; the loop stops at
\* Promise.race when the queue is full and at Promise.all after the last item
RECURSIVE LoopFrom(_, _, _, _)
LoopFrom(n, q, inv, ivd) ==
    IF n > collection
    THEN [ppc |-> "all", queue |-> q, waitingOn |-> RestOfCalls(q),
          invocation |-> inv, invoked |-> ivd, next |-> n]
    ELSE LET q1 == Append(q, n)
             inv1 == [inv EXCEPT ![n] = "running"]
             ivd1 == [ivd EXCEPT ![n] = @ + 1]
         IN  IF MustWait(q1, concurrent)
             THEN [ppc |-> "race", queue |-> q1, waitingOn |-> Elements(q1),
                   invocation |-> inv1, invoked |-> ivd1, next |-> n + 1]
             ELSE LoopFrom(n + 1, q1, inv1, ivd1)

\* The next item of the loop: the items are called in order, one call each
NextItem == Cardinality({i \in DOMAIN invocation : invocation[i] # "none"}) + 1

\* The call of parallel
Parallel ==
    /\ ppc = "off"
    /\ LET s == LoopFrom(1, <<>>, invocation, invoked)
       IN  ParallelStep(s.ppc, s.queue, s.waitingOn, s.invocation, s.invoked,
                        settleOrder, testSuites)

\* The promise of one processor call settles.  Fulfilled: the processor has
\* pushed its suite, and the then-callback of p is due.  Rejected: p is
\* rejected with it (the then has no rejection handler) and stays in queue
ProcessorSettles ==
    \E i \in DOMAIN invocation : \E ok \in BOOLEAN :
        /\ invocation[i] = "running"
        /\ IF ok
           THEN ParallelStep(ppc, queue, waitingOn,
                             [invocation EXCEPT ![i] = "fulfilled"], invoked,
                             settleOrder, testSuites \cup {i})
           ELSE ParallelStep(ppc, queue, waitingOn,
                             [invocation EXCEPT ![i] = "rejected"], invoked,
                             Append(settleOrder, i), testSuites)

\* queue.splice(queue.indexOf(p), 1): indexOf is -1 for a promise that is
\* not in the array, and splice(-1, 1) removes the last element
Splice(q, i) ==
    LET at == {k \in DOMAIN q : q[k] = i}
        k == IF at = {} THEN Len(q) ELSE CHOOSE k \in at : \A j \in at : k <= j
    IN  [j \in 1..(Len(q) - (IF Len(q) > 0 THEN 1 ELSE 0)) |->
            IF j < k THEN q[j] ELSE q[j + 1]]

\* .then(res => { queue.splice(queue.indexOf(p), 1); return res; }): p is
\* taken out of the queue and fulfilled
ThenCallback ==
    \E i \in DOMAIN invocation :
        /\ invocation[i] = "fulfilled"
        /\ ParallelStep(ppc, Splice(queue, i), waitingOn,
                        [invocation EXCEPT ![i] = "spliced"], invoked,
                        Append(settleOrder, i), testSuites)

\* The promise that settled first among those handed to Promise.race
FirstSettled(w) ==
    LET at == {k \in DOMAIN settleOrder : settleOrder[k] \in w}
    IN  IF at = {} THEN 0
        ELSE settleOrder[CHOOSE k \in at : \A j \in at : k <= j]

\* parallel resumes after await Promise.race(queue): it goes on with the
\* loop, or throws when the promise that won the race was rejected
RaceSettles ==
    /\ ppc = "race"
    /\ FirstSettled(waitingOn) # 0
    /\ IF invocation[FirstSettled(waitingOn)] = "rejected"
       THEN ParallelStep("rejected", queue, {}, invocation, invoked, settleOrder,
                         testSuites)
       ELSE LET s == LoopFrom(NextItem, queue, invocation, invoked)
            IN  ParallelStep(s.ppc, s.queue, s.waitingOn, s.invocation, s.invoked,
                             settleOrder, testSuites)

\* parallel resumes after await Promise.all(queue): rejected as soon as one
\* of the promises is, resolved when all of them are fulfilled
AllSettles ==
    /\ ppc = "all"
    /\ \/ /\ \E i \in waitingOn : invocation[i] = "rejected"
          /\ ParallelStep("rejected", queue, {}, invocation, invoked, settleOrder,
                          testSuites)
       \/ /\ \A i \in waitingOn : invocation[i] = "spliced"
          /\ ParallelStep("resolved", queue, {}, invocation, invoked, settleOrder,
                          testSuites)

InitParallel ==
    /\ variant = "controller"
    /\ resultsType = "json"
    /\ foreignProc = "none"
    /\ logDir = TRUE
    /\ PipelineIdle
    /\ resultsFile = "absent"
    /\ requested = {}
    /\ artifact = NoArtifact
    /\ testLog = EmptyLog
    /\ readErr = "none"
    /\ reported = <<>>
    /\ errorShown = FALSE
    /\ rpc = "off"
    /\ testStates = <<>>
    /\ ArtifactsIdle
    /\ ProcessIdle
    /\ SignalIdle
    /\ DiscoveryIdle
    /\ concurrent \in 1..MaxConcurrent
    /\ collection \in 0..MaxItems
    /\ ppc = "off"
    /\ queue = <<>>
    /\ waitingOn = {}
    /\ invocation = [i \in 1..collection |-> "none"]
    /\ invoked = [i \in 1..collection |-> 0]
    /\ settleOrder = <<>>
    /\ testSuites = {}

NextParallel ==
    \/ Parallel
    \/ ProcessorSettles
    \/ ThenCallback
    \/ RaceSettles
    \/ AllSettles

SpecParallel == InitParallel /\ [][NextParallel]_vars

InFlight == {i \in DOMAIN invocation : invocation[i] = "running"}

\* C39: parallel never has more than `concurrent` processor calls in flight,
\* for every number of items and every order in which the calls complete
C39_AtMostConcurrentInFlight ==
    Cardinality(InFlight) <= concurrent

\* The limit is reached while items are left: parallel waits in Promise.race
C39_Witness ==
    /\ concurrent = 2
    /\ Cardinality(InFlight) = 2
    /\ ppc = "race"
    /\ NextItem <= collection
    /\ settleOrder # <<>>

\* C40 (as amended): the processor is called at most once per item; when
\* parallel resolves it was called exactly once for every item, every call
\* has completed and the result of every item is there; parallel rejects
\* only when a processor call was rejected
C40_ResolvesAfterEveryCall ==
    /\ \A i \in DOMAIN invoked : invoked[i] <= 1
    /\ ppc = "resolved" =>
        /\ \A i \in 1..collection : invoked[i] = 1 /\ invocation[i] = "spliced"
        /\ testSuites = 1..collection
    /\ ppc = "rejected" => \E i \in 1..collection : invocation[i] = "rejected"

\* C40 (as stated): once parallel has settled the processor was called
\* exactly once for every item, and when it resolved every call has
\* completed and no result is missing
C40_EveryItemInvoked ==
    /\ ppc \in {"resolved", "rejected"} =>
        \A i \in 1..collection : invoked[i] = 1
    /\ ppc = "resolved" =>
        /\ \A i \in 1..collection : invocation[i] = "spliced"
        /\ testSuites = 1..collection

\* parallel resolved for four items, limit two, and the calls did not
\* complete in the order of the items
C40_Witness ==
    /\ ppc = "resolved"
    /\ collection = MaxItems
    /\ concurrent = 2
    /\ settleOrder[1] # 1
    /\ settleOrder[Len(settleOrder)] # collection

====
